---- MODULE Spec2Model ----
(***************************************************************************)
(* Model of the draft-publish execution engine,                            *)
(* src/src/publish/playwright_steps.py: run_save_draft_sync and the        *)
(* helpers it calls, with the persistence call of src/src/storage/files.py.*)
(*                                                                         *)
(* One behaviour is one invocation of run_save_draft_sync.  The browser    *)
(* page is the environment: every page operation picks its outcome         *)
(* nondeterministically among the outcomes the code distinguishes (a       *)
(* match, a timeout, a Playwright error).  Python's exception propagation  *)
(* through the two nested try statements is modelled explicitly: `raised`  *)
(* is the chain of the exception in flight (head = the exception that      *)
(* propagates, tail = its __context__ chain).                              *)
(*                                                                         *)
(* Texts the code writes in Chinese are written as ASCII glosses.          *)
(***************************************************************************)
EXTENDS Integers, Sequences, FiniteSets, TLC

----------------------------------------------------------------------------
(* Bounds of the model *)

\* usable asset files handed to one run: 0..MaxAssets
MaxAssets == 2
\* the draft counter shown by the page ranges over 0..MaxCount
MaxCount == 0
\* page fixtures the run is tried against, numbered 1..MaxVariant: the markup
\* variants of the console (see the section "Page fixtures")
MaxVariant == 3
\* seconds of login_hold a run may ask for: 0..MaxHold
MaxHold == 1
\* readings of the draft counter one poll is followed through
MaxPolls == 2

----------------------------------------------------------------------------
(* Program constants: the candidate lists *)

TARGET_URL == "https://creator.xiaohongshu.com/publish/publish?target=image"

\* u4e0au4f20u56feu6587, u53d1u5e03u56feu6587, u53d1u5e03u7b14u8bb0, u53d1u5e03, u56feu6587
WAIT_TEXTS == <<"upload-image-note", "publish-image-note", "publish-note", "publish", "image-note">>

\* u6682u5b58u79bbu5f00, u6682u5b58u5e76u79bbu5f00, u6682u5b58, u4fddu5b58u8349u7a3f, u5b58u8349u7a3f, u5b58u4e3au8349u7a3f
DRAFT_TEXTS == <<"stash-leave", "stash-and-leave", "stash", "save-draft", "keep-draft", "save-as-draft">>

\* u4fddu5b58u6210u529f, u5df2u4fddu5b58, u8349u7a3fu5df2u4fddu5b58, u5df2u5b58u8349u7a3f, u5df2u6682u5b58
SAVE_OK_TEXTS == <<"save-ok", "saved", "draft-saved", "draft-kept", "stashed">>

UPLOAD_BUTTON_SELECTORS == <<"button.upload-button", "button:has-text('upload-image')">>

\* the selector list of the wait_for_editor step (lines 704-709)
EDITOR_SELECTORS == <<"input[type='file']", "input[placeholder*='title']", "textarea", "[contenteditable='true']">>

\* the selector list of the wait_for_editor_after_upload step (lines 767-771)
EDITOR_AFTER_UPLOAD_SELECTORS == <<"input[placeholder*='title']", "textarea", "[contenteditable='true']">>

\* the labels tried by the confirm_leave step (line 798):
\* u6682u5b58u79bbu5f00, u786eu5b9a, u7ee7u7eedu79bbu5f00
LEAVE_TEXTS == <<"stash-leave", "ok", "leave-anyway">>

\* iterations of the draft-counter poll, `for _ in range(10)`
COUNT_POLLS == 10

----------------------------------------------------------------------------
(* Python values *)

None == <<>>
Some(v) == <<v>>

PyBool(b) == IF b THEN "True" ELSE "False"
PyOpt(o) == IF o = None THEN "None" ELSE ToString(o[1])

Min(a, b) == IF a <= b THEN a ELSE b
Last(s) == s[Len(s)]

\* exception messages
ProfileError == "cannot create profile dir"
LaunchError == "browser launch failed"
PageError == "playwright error"
NewPageError == "cannot open a page"
EvidenceDirError == "cannot create evidence dir"
CloseError == "context close failed"
TimeoutError(what) == "timeout waiting for any " \o what

----------------------------------------------------------------------------
VARIABLES
    dry_run, login_only, login_hold, assets,   \* the call's options
    ui_variant,      \* the markup variant the console serves in this session
    pc,              \* position in run_save_draft_sync
    started,         \* _step has appended the entry of the step at pc
    steps,           \* the local ledger `steps`
    result, error,   \* exec_rec.result, exec_rec.error
    exec_steps,      \* exec_rec.steps
    result_writes,   \* number of assignments to exec_rec.result so far
    raised,          \* chain of the exception in flight (<<>>: none)
    caught,          \* chain of the exception bound by `except Exception as exc`
    returning,       \* a `return exec_rec` is pending while finally blocks run
    context,         \* "none", "open" or "closed"
    close_calls,     \* calls of context.close()
    before_count,    \* local before_count
    cover_ready,     \* local cover_ready
    saved,           \* the records written by save_execution, in order
    returned,        \* the value returned to the caller (<<>>: not yet)
    evidence         \* the files written into the evidence directory

\* The helpers and callers studied on their own, outside a run of the
\* pipeline (None while the module follows a run):
VARIABLES
    actual, expected, matches,       \* a call of _matches_value and its result
    helper, selectors, visible,      \* a call of a candidate resolution: the
    timeout_ms,                      \*   function, its list, the candidates
    res_pc, tried, elapsed, ret,     \*   matching on the page, its progress
    executions, pending_runs, clock, \* the executions directory of one post
    provider, image_count,           \* a call of
    max_attempts, img_pc, gen_calls, \*   fetch_and_download_related_images
    metas, img_error

\* The operations on one locator, lines 104-111, 133-160 and 418-425:
VARIABLES
    fn, locator, fill_value,         \* a call of _click_first or _fill_if_found
    content, fill_pc, ops, fret      \*   the control's text, the operations
                                     \*   performed so far, the outcome

\* The search of the title and body fields over the documents of the page,
\* lines 328-345 and 375-393:
VARIABLES
    frm_fn, frames, sections,        \* a call of _fill_text_fields or
    frm_pc, frm_i, fields_ok,        \*   _verify_title_body: page.frames, the
    searched                         \*   content sections, the loop's position

\* The polling loops, lines 524-535, 568-574, 616-622 and 824-833:
VARIABLES
    loop, time_s, deadline,          \* a call of a polling loop: time.time(),
    iters, poll_pc, seen, poll_ret   \*   the deadline, the iterations made,
                                     \*   what the last check observed

\* The save click, lines 396-415:
VARIABLES
    buttons, cd_pc, clicks, cd_ret   \* a call of _click_draft: the buttons of
                                     \*   the page, the clicks made, the result

\* The record files, src/src/storage/files.py lines 20-24:
VARIABLES
    wj_path, dest, tmp,              \* a path written by _write_json_atomic:
    wj_pc, obj, prev                 \*   the file at the path, the temporary
                                     \*   file, the writer's position

opts == <<dry_run, login_only, login_hold, assets, ui_variant>>
outv == <<result, error, exec_steps, result_writes>>
excv == <<raised, caught, returning>>
ctxv == <<context, close_calls>>
locv == <<before_count, cover_ready>>
stov == <<saved, returned>>
runv == <<opts, pc, started, steps, outv, excv, ctxv, locv, stov, evidence>>
matv == <<actual, expected, matches>>
resv == <<helper, selectors, visible, timeout_ms, res_pc, tried, elapsed, ret>>
attv == <<executions, pending_runs, clock>>
imgv == <<provider, image_count, max_attempts, img_pc, gen_calls, metas, img_error>>
fillv == <<fn, locator, fill_value, content, fill_pc, ops, fret>>
\* the helpers of the earlier sections and those of the later ones
earlier == <<matv, resv, attv, imgv>>
frmv == <<frm_fn, frames, sections, frm_pc, frm_i, fields_ok, searched>>
pollv == <<loop, time_s, deadline, iters, poll_pc, seen, poll_ret>>
clkv == <<buttons, cd_pc, clicks, cd_ret>>
stgv == <<wj_path, dest, tmp, wj_pc, obj, prev>>
later == <<fillv, frmv, pollv, clkv, stgv>>
helpers == <<earlier, later>>
\* what a helper leaves alone besides the run
besides_fill == <<earlier, frmv, pollv, clkv, stgv>>
besides_frames == <<earlier, fillv, pollv, clkv, stgv>>
besides_poll == <<earlier, fillv, frmv, clkv, stgv>>
besides_click == <<earlier, fillv, frmv, pollv, stgv>>
besides_storage == <<earlier, fillv, frmv, pollv, clkv>>
\* what no step of a run changes: its options, and the helpers' own state
fixed == <<opts, helpers>>
vars == <<runv, helpers>>

\* exec_rec as model_dump() sees it
ExecRec == [result |-> result, error |-> error, steps |-> exec_steps]

----------------------------------------------------------------------------
(* Step Ledger *)

\* the names of the _step calls in textual order (lines 648-881)
PipelineOrder ==
    << "launch", "open_page", "login_hold", "page_state",
       "screenshot_before_wait", "html_before_wait", "frame_info",
       "wait_for_publish_ui", "wait_for_editor",
       "upload_images", "wait_for_upload_complete", "wait_for_processing_done",
       "select_cover", "snapshot_after_upload", "wait_for_editor_after_upload",
       "fill_title_body", "verify_title_body", "save_draft", "confirm_leave",
       "snapshot_after_save", "verify_draft_saved", "open_draft_box",
       "open_draft_tab", "wait_for_draft_items", "wait_for_draft_cover",
       "snapshot_draft_box", "html_draft_box", "verify_draft_box_item" >>

StepResult(name, status, detail) == [name |-> name, status |-> status, detail |-> detail]

\* _step(name, status, detail): steps.append(StepResult(...))
_step(ledger, name, status, detail) == Append(ledger, StepResult(name, status, detail))

\* steps[-1].detail = detail
SetLastDetail(ledger, detail) == [ledger EXCEPT ![Len(ledger)].detail = detail]

\* steps[-1].status = "success"
MarkLastSuccess(ledger) == [ledger EXCEPT ![Len(ledger)].status = "success"]

\* the detail _step is called with for the step `name`
InitialDetail(name) ==
    CASE name = "launch" -> "profile_dir"
      [] name = "open_page" -> TARGET_URL
      [] name = "login_hold" -> "wait " \o ToString(login_hold) \o "s for login"
      [] name = "upload_images" -> ToString(assets) \o " files"
      [] OTHER -> ""

\* _step(name, "in_progress", ...) of the step the run is at
Begin(name) ==
    /\ pc = name
    /\ ~started
    /\ started' = TRUE
    /\ steps' = _step(steps, name, "in_progress", InitialDetail(name))
    /\ UNCHANGED <<fixed, evidence, pc, outv, excv, ctxv, locv, stov>>

\* mutant: the detail of the step is written and its status is left as it is
Succeed_unmarked(detail, next) ==
    /\ steps' = SetLastDetail(steps, detail)
    /\ pc' = next
    /\ started' = FALSE
    /\ UNCHANGED raised

\* the step at pc ends: its detail is written, its status set to success
Succeed(detail, next) ==
    /\ steps' = MarkLastSuccess(SetLastDetail(steps, detail))
    /\ pc' = next
    /\ started' = FALSE
    /\ UNCHANGED raised

\* the step at pc raises: the exception leaves the inner try block, whose
\* finally clause (context.close) runs next
Raise(detail, msg) ==
    /\ steps' = SetLastDetail(steps, detail)
    /\ raised' = <<msg>>
    /\ pc' = "close"
    /\ started' = FALSE

\* a statement between two steps raises inside the inner try block
RaiseBetween(msg) ==
    /\ raised' = <<msg>>
    /\ pc' = "close"
    /\ UNCHANGED <<steps, started>>

Running(name) == pc = name /\ started

LastDetail == Last(steps).detail

----------------------------------------------------------------------------
(* Page fixtures.  ui_variant numbers the markup variants of the console    *)
(* the run is tried against.  What depends on the markup alone (which       *)
(* candidates of a list exist, how the upload, the cover picker, the save   *)
(* control and the leave dialog present themselves) is a function of the    *)
(* variant; what depends on timing or on the account (whether an element    *)
(* appears in time, whether a field took its value, the draft counter, the  *)
(* toast, the cover) is chosen freely at each operation, and so is every    *)
(* failure.                                                                 *)

\* the candidates of `list` variant ui_variant exposes: the candidate of
\* rank min(ui_variant, length) and the later ones
Exposed(list) == {i \in 1..Len(list) : i >= Min(ui_variant, Len(list))}

\* what a resolver can find on the page during one call: nothing at all (the
\* page never gets there) or the candidates the variant exposes
Presence(list) == {{}, Exposed(list)}

\* the first candidate of `list`, in declared order, that is in `present`;
\* 0 when none is (lines 95-101, 116-122: the for loop over the candidates)
RECURSIVE FirstFrom(_, _, _)
FirstFrom(list, present, i) ==
    IF i > Len(list) THEN 0
    ELSE IF i \in present THEN i
    ELSE FirstFrom(list, present, i + 1)

\* _wait_for_any_text / _wait_for_any_locator: index of the returned
\* candidate, 0 for the raised PlaywrightTimeoutError
_wait_for_any(list, present) == FirstFrom(list, present, 1)

----------------------------------------------------------------------------
\* no helper is being studied on its own
NoMatch == actual = None /\ expected = None /\ matches = None
NoResolution ==
    /\ helper = None /\ selectors = None /\ visible = None /\ timeout_ms = None
    /\ res_pc = None /\ tried = None /\ elapsed = None /\ ret = None
NoAttempts == executions = None /\ pending_runs = None /\ clock = None
NoImages ==
    /\ provider = None /\ image_count = None /\ max_attempts = None
    /\ img_pc = None /\ gen_calls = None /\ metas = None /\ img_error = None
NoFill ==
    /\ fn = None /\ locator = None /\ fill_value = None /\ content = None
    /\ fill_pc = None /\ ops = None /\ fret = None
NoEarlier == NoMatch /\ NoResolution /\ NoAttempts /\ NoImages
NoFrames ==
    /\ frm_fn = None /\ frames = None /\ sections = None /\ frm_pc = None
    /\ frm_i = None /\ fields_ok = None /\ searched = None
NoPoll ==
    /\ loop = None /\ time_s = None /\ deadline = None /\ iters = None
    /\ poll_pc = None /\ seen = None /\ poll_ret = None
NoClick == buttons = None /\ cd_pc = None /\ clicks = None /\ cd_ret = None
NoStorage ==
    /\ wj_path = None /\ dest = None /\ tmp = None /\ wj_pc = None
    /\ obj = None /\ prev = None
NoLater == NoFill /\ NoFrames /\ NoPoll /\ NoClick /\ NoStorage
NoHelper == NoEarlier /\ NoLater

\* the locals and the Execution of a run that has not begun
FreshRun ==
    /\ pc = "start"
    /\ started = FALSE
    /\ steps = <<>>
    /\ result = "pending"
    /\ error = None
    /\ exec_steps = <<>>
    /\ result_writes = 0
    /\ raised = <<>>
    /\ caught = <<>>
    /\ returning = FALSE
    /\ context = "none"
    /\ close_calls = 0
    /\ before_count = None
    /\ cover_ready = FALSE
    /\ saved = <<>>
    /\ returned = <<>>
    /\ evidence = {}

\* the helpers below are studied outside a run: no run is in progress
NoRun ==
    /\ dry_run = FALSE /\ login_only = FALSE /\ login_hold = 0 /\ assets = 0
    /\ ui_variant = 1
    /\ FreshRun

Init ==
    /\ dry_run \in BOOLEAN
    /\ login_only \in BOOLEAN
    /\ login_hold \in 0..MaxHold
    /\ assets \in 0..MaxAssets
    /\ ui_variant \in 1..MaxVariant
    /\ FreshRun
    /\ NoHelper

----------------------------------------------------------------------------
(* run_save_draft_sync, lines 644-714: launch to wait_for_editor *)

\* everything a plain step leaves alone
Frame == UNCHANGED <<fixed, evidence, outv, caught, returning, ctxv, locv, stov>>

\* a step that writes `file` into the evidence directory: the file is there
\* once the call that writes it has returned
Snapshot(file, next) ==
    /\ \/ Succeed("saved to " \o file, next) /\ evidence' = evidence \cup {file}
       \/ Raise(LastDetail, PageError) /\ UNCHANGED evidence
    /\ UNCHANGED <<fixed, outv, caught, returning, ctxv, locv, stov>>

\* lines 638-639: the _step call that opens the step the run is at
begin_step == \E name \in {PipelineOrder[i] : i \in 1..Len(PipelineOrder)} : Begin(name)

\* lines 645-646: _resolve_profile_config(), profile_dir.mkdir(); a failure
\* is raised outside the inner try block, so no context.close() follows
resolve_profile ==
    /\ pc = "start"
    /\ \/ pc' = "launch" /\ UNCHANGED raised
       \/ pc' = "except" /\ raised' = <<ProfileError>>
    /\ UNCHANGED <<steps, started>>
    /\ Frame

\* lines 649-657: sync_playwright(), launch_persistent_context
step_launch ==
    /\ Running("launch")
    /\ \/ /\ Succeed(LastDetail, "get_page")
          /\ context' = "open"
       \/ /\ steps' = steps
          /\ raised' = <<LaunchError>>
          /\ pc' = "except"
          /\ started' = FALSE
          /\ UNCHANGED context
    /\ UNCHANGED <<fixed, evidence, outv, caught, returning, close_calls, locv, stov>>

\* line 659: context.pages[0] or context.new_page()
get_page ==
    /\ pc = "get_page"
    /\ \/ pc' = "open_page" /\ UNCHANGED <<raised, steps, started>>
       \/ RaiseBetween(NewPageError)
    /\ Frame

\* lines 660-662: page.goto(TARGET_URL)
step_open_page ==
    /\ Running("open_page")
    /\ \/ Succeed(LastDetail, IF login_hold > 0 THEN "login_hold" ELSE "evidence_dir")
       \/ Raise(LastDetail, PageError)
    /\ Frame

\* lines 664-667: time.sleep(login_hold)
step_login_hold ==
    /\ Running("login_hold")
    /\ Succeed(LastDetail, "evidence_dir")
    /\ Frame

\* lines 669-670: evidence_dir(...).mkdir()
make_evidence_dir ==
    /\ pc = "evidence_dir"
    /\ \/ pc' = "page_state" /\ UNCHANGED <<raised, steps, started>>
       \/ RaiseBetween(EvidenceDirError)
    /\ Frame

\* lines 672-677: page.url, page.title()
step_page_state ==
    /\ Running("page_state")
    /\ \/ Succeed("url and title", "screenshot_before_wait")
       \/ Raise(LastDetail, PageError)
    /\ Frame

\* lines 679-683: page.screenshot
step_screenshot_before_wait ==
    /\ Running("screenshot_before_wait")
    /\ Snapshot("before_wait.png", "html_before_wait")

\* lines 685-689: page.content(), write_text
step_html_before_wait ==
    /\ Running("html_before_wait")
    /\ Snapshot("before_wait.html", "frame_info")

\* lines 691-694: the urls of page.frames
step_frame_info ==
    /\ Running("frame_info")
    /\ Succeed("frame urls", "wait_for_publish_ui")
    /\ Frame

\* lines 696-699: _wait_for_any_text(page, WAIT_TEXTS, wait_timeout_ms)
step_wait_for_publish_ui ==
    /\ Running("wait_for_publish_ui")
    /\ \/ \E present \in Presence(WAIT_TEXTS) :
            LET i == _wait_for_any(WAIT_TEXTS, present) IN
            IF i = 0 THEN Raise(LastDetail, TimeoutError("of: WAIT_TEXTS"))
            ELSE Succeed("matched " \o WAIT_TEXTS[i], "wait_for_editor")
       \/ Raise(LastDetail, PageError)
    /\ Frame

\* lines 701-713: _wait_for_any_locator(page, [...], 120000)
step_wait_for_editor ==
    /\ Running("wait_for_editor")
    /\ \/ \E present \in Presence(EDITOR_SELECTORS) :
            LET i == _wait_for_any(EDITOR_SELECTORS, present) IN
            IF i = 0 THEN Raise(LastDetail, TimeoutError("selector: EDITOR_SELECTORS"))
            ELSE Succeed("matched " \o EDITOR_SELECTORS[i], "branch")
       \/ Raise(LastDetail, PageError)
    /\ Frame

----------------------------------------------------------------------------
(* lines 715-724: the early exits *)

\* mutant: the login-only return leaves the function without closing the
\* context
login_only_exit_no_close ==
    /\ pc = "branch"
    /\ login_only
    /\ result' = "login_ready"
    /\ result_writes' = result_writes + 1
    /\ returning' = TRUE
    /\ pc' = "finally"
    /\ UNCHANGED <<fixed, evidence, started, steps, error, exec_steps, raised, caught, ctxv, locv, stov>>

\* lines 715-717: if login_only: result = "login_ready"; return exec_rec
login_only_exit ==
    /\ pc = "branch"
    /\ login_only
    /\ result' = "login_ready"
    /\ result_writes' = result_writes + 1
    /\ returning' = TRUE
    /\ pc' = "close"
    /\ UNCHANGED <<fixed, evidence, started, steps, error, exec_steps, raised, caught, ctxv, locv, stov>>

\* mutant: the dry-run entries appended in another order
DryRunSkips_reordered(ledger) ==
    _step(_step(_step(ledger, "upload_images", "skipped", "dry_run"),
                "save_draft", "skipped", "dry_run"),
          "fill_title_body", "skipped", "dry_run")

\* the three _step calls of lines 720-722
DryRunSkips(ledger) ==
    _step(_step(_step(ledger, "upload_images", "skipped", "dry_run"),
                "fill_title_body", "skipped", "dry_run"),
          "save_draft", "skipped", "dry_run")

\* mutant: the dry run falls through into the upload instead of returning
dry_run_exit_falls_through ==
    /\ pc = "branch"
    /\ ~login_only
    /\ dry_run
    /\ steps' = DryRunSkips(steps)
    /\ result' = "pending"
    /\ result_writes' = result_writes + 1
    /\ pc' = "snapshot_after_upload"
    /\ UNCHANGED <<fixed, evidence, started, error, exec_steps, excv, ctxv, locv, stov>>

\* lines 719-724: if dry_run: three skipped steps; result = "pending"; return
dry_run_exit ==
    /\ pc = "branch"
    /\ ~login_only
    /\ dry_run
    /\ steps' = DryRunSkips(steps)
    /\ result' = "pending"
    /\ result_writes' = result_writes + 1
    /\ returning' = TRUE
    /\ pc' = "close"
    /\ UNCHANGED <<fixed, evidence, started, error, exec_steps, raised, caught, ctxv, locv, stov>>

\* mutant: the upload is attempted whether or not there are asset files
upload_branch_always_uploads ==
    /\ pc = "branch"
    /\ ~login_only
    /\ ~dry_run
    /\ pc' = "upload_images"
    /\ UNCHANGED <<steps, started, raised>>
    /\ Frame

\* mutant: the upload branch is entered in a dry run as well
upload_branch_in_dry_run ==
    /\ pc = "branch"
    /\ ~login_only
    /\ IF assets > 0
       THEN pc' = "upload_images" /\ UNCHANGED steps
       ELSE /\ pc' = "snapshot_after_upload"
            /\ steps' = _step(steps, "upload_images", "skipped", "no assets")
    /\ UNCHANGED <<started, raised>>
    /\ Frame

\* lines 726, 755-756: if assets: ... else: _step("upload_images", "skipped")
upload_branch ==
    /\ pc = "branch"
    /\ ~login_only
    /\ ~dry_run
    /\ IF assets > 0
       THEN pc' = "upload_images" /\ UNCHANGED steps
       ELSE /\ pc' = "snapshot_after_upload"
            /\ steps' = _step(steps, "upload_images", "skipped", "no assets")
    /\ UNCHANGED <<started, raised>>
    /\ Frame

----------------------------------------------------------------------------
(* lines 726-787: upload, cover, text fields *)

\* _try_upload_with_button, then _try_upload_with_input (lines 170-193,
\* 728-730): the method string of a successful upload.  A variant that has
\* the k-th upload button uploads through it, the others through the raw
\* file input.
UploadMethod ==
    IF ui_variant <= Len(UPLOAD_BUTTON_SELECTORS)
    THEN "button:" \o UPLOAD_BUTTON_SELECTORS[ui_variant]
    ELSE "input"

\* lines 727-738
step_upload_images ==
    /\ Running("upload_images")
    /\ \/ Succeed(ToString(assets) \o " files via " \o UploadMethod, "wait_for_upload_complete")
       \/ Raise(ToString(assets) \o " files via input:none", "file input not found")
       \/ Raise(LastDetail, PageError)
    /\ Frame

\* lines 739-744: _wait_for_upload_ready(page, len(assets))
step_wait_for_upload_complete ==
    /\ Running("wait_for_upload_complete")
    /\ \E confirmed \in BOOLEAN :
         IF confirmed
         THEN Succeed("confirmed=" \o PyBool(confirmed), "wait_for_processing_done")
         ELSE Raise("confirmed=" \o PyBool(confirmed), "upload count not ready")
    /\ Frame

\* mutant: a processing wait that timed out is recorded and the run goes on
step_wait_for_processing_done_goes_on ==
    /\ Running("wait_for_processing_done")
    /\ \E processed \in BOOLEAN :
         Succeed("processed=" \o PyBool(processed), "select_cover")
    /\ Frame

\* lines 745-750: _wait_for_processing_done(page)
step_wait_for_processing_done ==
    /\ Running("wait_for_processing_done")
    /\ \E processed \in BOOLEAN :
         IF processed
         THEN Succeed("processed=" \o PyBool(processed), "select_cover")
         ELSE Raise("processed=" \o PyBool(processed), "upload processing not finished")
    /\ Frame

\* _maybe_select_cover (lines 196-298): the (applied, detail) it returns.
\* Whether a cover picker opens, offers an image and has a confirm button is
\* a property of the markup variant.
CoverDetail ==
    LET k == ui_variant % 4
        selected == k \in {2, 3}
        confirmed == k = 2
    IN IF k = 1 THEN "skipped"
       ELSE "selected=" \o PyBool(selected) \o " confirmed=" \o PyBool(confirmed)

\* lines 751-754; a click inside _maybe_select_cover that raises is not caught
step_select_cover ==
    /\ Running("select_cover")
    /\ \/ Succeed(CoverDetail, "snapshot_after_upload")
       \/ Raise(LastDetail, PageError)
    /\ Frame

\* lines 758-762
step_snapshot_after_upload ==
    /\ Running("snapshot_after_upload")
    /\ Snapshot("after_upload.png", "wait_for_editor_after_upload")

\* lines 764-775: _wait_for_any_locator(page, [...], 60000)
step_wait_for_editor_after_upload ==
    /\ Running("wait_for_editor_after_upload")
    /\ \/ \E present \in Presence(EDITOR_AFTER_UPLOAD_SELECTORS) :
            LET i == _wait_for_any(EDITOR_AFTER_UPLOAD_SELECTORS, present) IN
            IF i = 0 THEN Raise(LastDetail, TimeoutError("selector: EDITOR_AFTER_UPLOAD_SELECTORS"))
            ELSE Succeed("matched " \o EDITOR_AFTER_UPLOAD_SELECTORS[i], "fill_title_body")
       \/ Raise(LastDetail, PageError)
    /\ Frame

\* lines 777-780: _fill_text_fields; its result is only recorded
step_fill_title_body ==
    /\ Running("fill_title_body")
    /\ \/ \E title_ok \in BOOLEAN, body_ok \in BOOLEAN :
            Succeed("title=" \o PyBool(title_ok) \o " body=" \o PyBool(body_ok), "verify_title_body")
       \/ Raise(LastDetail, PageError)
    /\ Frame

\* mutant: the verification is recorded but a mismatch does not stop the run
step_verify_title_body_goes_on ==
    /\ Running("verify_title_body")
    /\ \/ \E v_title \in BOOLEAN, v_body \in BOOLEAN :
            Succeed("title=" \o PyBool(v_title) \o " body=" \o PyBool(v_body), "save_draft")
       \/ Raise(LastDetail, PageError)
    /\ Frame

\* lines 782-787: _verify_title_body
step_verify_title_body ==
    /\ Running("verify_title_body")
    /\ \/ \E v_title \in BOOLEAN, v_body \in BOOLEAN :
            LET detail == "title=" \o PyBool(v_title) \o " body=" \o PyBool(v_body) IN
            IF v_title /\ v_body
            THEN Succeed(detail, "save_draft")
            ELSE Raise(detail, "title/body not filled")
       \/ Raise(LastDetail, PageError)
    /\ Frame

----------------------------------------------------------------------------
(* lines 789-839: save and confirm *)

\* _click_draft (lines 396-415).  role, text and menu are the labels of
\* DRAFT_TEXTS (by rank) that _click_first can click in the pass by role, in
\* the pass by button text, and in the pass by button text once the publish
\* menu was opened.  Returns (clicked, detail).
_click_draft(role, text, menu) ==
    LET r == FirstFrom(DRAFT_TEXTS, role, 1)
        t == FirstFrom(DRAFT_TEXTS, text, 1)
        m == FirstFrom(DRAFT_TEXTS, menu, 1)
    IN IF r # 0 THEN <<TRUE, "button:" \o DRAFT_TEXTS[r]>>
       ELSE IF t # 0 THEN <<TRUE, "button-text:" \o DRAFT_TEXTS[t]>>
       ELSE IF m # 0 THEN <<TRUE, "menu:" \o DRAFT_TEXTS[m]>>
       ELSE <<FALSE, "draft button not found">>

\* the save controls of the markup variant, as <<role, text, menu>>: the
\* pass that finds the control (by role, by button text, after opening the
\* publish menu) and the label it carries are properties of the variant
DraftControls ==
    LET k == ui_variant % 3
        shown == Exposed(DRAFT_TEXTS)
    IN IF k = 1 THEN <<shown, shown, shown>>
       ELSE IF k = 2 THEN <<{}, shown, shown>>
       ELSE <<{}, {}, shown>>

\* a page that shows no save control in any pass
NoDraftControls == <<{}, {}, {}>>

\* the detail of a click that found a control
ClickDraftDetail == _click_draft(DraftControls[1], DraftControls[2], DraftControls[3])[2]

\* mutant: a save click that found no control is recorded and the run goes on
step_save_draft_goes_on ==
    /\ Running("save_draft")
    /\ \/ \E c \in {DraftControls, NoDraftControls} :
            LET r == _click_draft(c[1], c[2], c[3]) IN
            IF r[1] THEN Succeed(r[2], "confirm_leave")
            ELSE /\ steps' = SetLastDetail(steps, r[2])
                 /\ pc' = "confirm_leave"
                 /\ started' = FALSE
                 /\ UNCHANGED raised
       \/ Raise(LastDetail, PageError)
    /\ Frame

\* lines 789-794: clicked, detail = _click_draft(page); raise
\* RuntimeError(detail) if not clicked
step_save_draft ==
    /\ Running("save_draft")
    /\ \/ \E c \in {DraftControls, NoDraftControls} :
            LET r == _click_draft(c[1], c[2], c[3]) IN
            IF r[1] THEN Succeed(r[2], "confirm_leave")
            ELSE Raise(r[2], r[2])
       \/ Raise(LastDetail, PageError)
    /\ Frame

\* lines 797-804: leave_clicked; odd variants show the leave dialog
LeaveDialog == ui_variant % 2 = 1

\* what _extract_draft_count (lines 486-497) can return
DraftCounts == {None} \cup {Some(n) : n \in 0..MaxCount}
DraftCountsAfter == {None} \cup {Some(n) : n \in 0..(MaxCount + 1)}

\* mutant: an error of the leave dialog is swallowed and the run goes on
step_confirm_leave_swallows ==
    /\ Running("confirm_leave")
    /\ \/ Succeed("clicked=" \o PyBool(LeaveDialog), "before_count")
       \/ /\ steps' = steps
          /\ pc' = "before_count"
          /\ started' = FALSE
          /\ UNCHANGED raised
    /\ Frame

\* lines 796-806: the leave dialog
step_confirm_leave ==
    /\ Running("confirm_leave")
    /\ \/ Succeed("clicked=" \o PyBool(LeaveDialog), "before_count")
       \/ Raise(LastDetail, PageError)
    /\ Frame

\* line 807: before_count = _extract_draft_count(page), which returns None
\* instead of raising (lines 487-490)
read_before_count ==
    /\ pc = "before_count"
    /\ before_count' \in DraftCounts
    /\ pc' = "snapshot_after_save"
    /\ UNCHANGED <<fixed, evidence, started, steps, outv, excv, ctxv, cover_ready, stov>>

\* lines 809-813
step_snapshot_after_save ==
    /\ Running("snapshot_after_save")
    /\ Snapshot("after_save.png", "verify_draft_saved")

\* lines 826-830: the counter is seen above its baseline
CountIncreased(before, after) ==
    /\ before # None
    /\ after # None
    /\ after[1] > before[1]

\* lines 823-833: the poll of the draft counter.  readings are the values
\* _extract_draft_count returns at the successive iterations; the loop ends
\* at the first reading above the baseline or with its last reading, and
\* after_count is that reading.
RECURSIVE PollDraftCount(_, _, _)
PollDraftCount(readings, before, i) ==
    IF i = Len(readings) \/ CountIncreased(before, readings[i])
    THEN readings[i]
    ELSE PollDraftCount(readings, before, i + 1)

\* the readings of one poll: Polls of them, each a counter value or None
Polls == Min(COUNT_POLLS, MaxPolls)
PollReadings == [1..Polls -> DraftCountsAfter]

\* lines 834-836: the detail of verify_draft_saved
VerifyDetail(toast, before, after) ==
    "toast=" \o toast \o " before=" \o PyOpt(before) \o " after=" \o PyOpt(after)

\* mutant: only the toast confirms the save, the counter is read and ignored
step_verify_draft_saved_toast_only ==
    /\ Running("verify_draft_saved")
    /\ \/ \E present \in Presence(SAVE_OK_TEXTS), readings \in PollReadings :
            LET i == _wait_for_any(SAVE_OK_TEXTS, present)
                toast == IF i = 0 THEN "none" ELSE SAVE_OK_TEXTS[i]
                after_count == PollDraftCount(readings, before_count, 1)
                ok == (i # 0)
                detail == VerifyDetail(toast, before_count, after_count)
            IN IF ok THEN Succeed(detail, "open_draft_box")
               ELSE Raise(detail, "draft save verification failed")
       \/ Raise(LastDetail, PageError)
    /\ Frame

\* lines 815-839: the toast wait (a timeout is caught, line 821), then the
\* counter poll, then the verdict
step_verify_draft_saved ==
    /\ Running("verify_draft_saved")
    /\ \/ \E present \in Presence(SAVE_OK_TEXTS), readings \in PollReadings :
            LET i == _wait_for_any(SAVE_OK_TEXTS, present)
                toast == IF i = 0 THEN "none" ELSE SAVE_OK_TEXTS[i]
                after_count == PollDraftCount(readings, before_count, 1)
                ok == (i # 0) \/ CountIncreased(before_count, after_count)
                detail == VerifyDetail(toast, before_count, after_count)
            IN IF ok THEN Succeed(detail, "open_draft_box")
               ELSE Raise(detail, "draft save verification failed")
       \/ Raise(LastDetail, PageError)
    /\ Frame

----------------------------------------------------------------------------
(* lines 841-888: the draft box *)

\* lines 841-846: _open_draft_box
step_open_draft_box ==
    /\ Running("open_draft_box")
    /\ \/ \E opened \in BOOLEAN :
            IF opened THEN Succeed("opened=" \o PyBool(opened), "open_draft_tab")
            ELSE Raise("opened=" \o PyBool(opened), "draft box entry not found")
       \/ Raise(LastDetail, PageError)
    /\ Frame

\* lines 848-853: _open_image_draft_tab
step_open_draft_tab ==
    /\ Running("open_draft_tab")
    /\ \/ \E opened_tab \in BOOLEAN :
            IF opened_tab THEN Succeed("opened=" \o PyBool(opened_tab), "wait_for_draft_items")
            ELSE Raise("opened=" \o PyBool(opened_tab), "image draft tab not found")
       \/ Raise(LastDetail, PageError)
    /\ Frame

\* mutant: the timeout of the draft list is recorded and the run goes on
step_wait_for_draft_items_swallows ==
    /\ Running("wait_for_draft_items")
    /\ \/ Succeed("ready", "wait_for_draft_cover")
       \/ Succeed("timeout", "wait_for_draft_cover")
       \/ Raise(LastDetail, PageError)
    /\ Frame

\* lines 855-862: page.locator(DRAFT_ITEM_SELECTOR).first.wait_for(30000)
step_wait_for_draft_items ==
    /\ Running("wait_for_draft_items")
    /\ \/ Succeed("ready", "wait_for_draft_cover")
       \/ Raise("timeout", "Timeout 30000ms exceeded")
       \/ Raise(LastDetail, PageError)
    /\ Frame

\* Texts are sequences of characters where the code slices or searches them.

\* post.title as the caller can pass it: empty (the default of Post), blank,
\* shorter and longer than the snippet
Titles ==
    { <<>>, <<" ">>, <<" ", "n", "o", "t", "e">>, <<"a", "l", "o", "n", "g", "e", "r">> }

\* str.strip()
RECURSIVE LStrip(_)
LStrip(s) == IF s # <<>> /\ Head(s) = " " THEN LStrip(Tail(s)) ELSE s
RECURSIVE RStrip(_)
RStrip(s) == IF s # <<>> /\ s[Len(s)] = " " THEN RStrip(SubSeq(s, 1, Len(s) - 1)) ELSE s
Strip(s) == RStrip(LStrip(s))

\* line 539: snippet = (title or "").strip()[:6]
SNIPPET_LEN == 6
Snippet(title) == LET t == Strip(title) IN SubSeq(t, 1, Min(SNIPPET_LEN, Len(t)))

\* String.prototype.includes
Includes(text, snippet) ==
    \E i \in 1..(Len(text) - Len(snippet) + 1) : SubSeq(text, i, i + Len(snippet) - 1) = snippet

\* a .draft-item of the draft list: its text and whether it exposes a cover
\* (an http(s) image source or background image, lines 551-559)
ItemTexts == { <<"n", "o", "t", "e">>, <<"a", "l", "o", "n", "g", "e">>, <<"x">> }
DraftItems == [text : ItemTexts, cover : BOOLEAN]

\* the draft lists the page can show: none, one or two items
DraftLists ==
    {<<>>} \cup {<<a>> : a \in DraftItems} \cup {<<a, b>> : a \in DraftItems, b \in DraftItems}

\* mutant: the cover of any item counts, whatever its text
_draft_item_has_cover_any_item(items, title) ==
    \E i \in 1..Len(items) : items[i].cover

\* _draft_item_has_cover (lines 538-565), on the list `items` the page shows
_draft_item_has_cover(items, title) ==
    LET snippet == Snippet(title)
        match == IF snippet # <<>>
                 THEN SelectSeq(items, LAMBDA item : Includes(item.text, snippet))
                 ELSE <<>>
        candidates == IF match # <<>> THEN match ELSE <<items[1]>>
    IN IF items = <<>> THEN FALSE
       ELSE IF snippet # <<>> /\ match = <<>> THEN FALSE
       ELSE \E i \in 1..Len(candidates) : candidates[i].cover

\* the list as it shows before the covers of its items have rendered
Uncovered(items) == [i \in 1..Len(items) |-> [items[i] EXCEPT !.cover = FALSE]]

\* what the polls of _wait_for_draft_cover see: the list without covers
\* until poll loads_at, the list `items` from then on (loads_at > Polls: the
\* covers do not render before the deadline)
CoverPolls(items, loads_at) ==
    [k \in 1..Polls |-> IF k >= loads_at THEN items ELSE Uncovered(items)]

\* _wait_for_draft_cover (lines 568-574): True at the first poll that finds
\* the cover, False when the deadline passes
RECURSIVE _wait_for_draft_cover(_, _, _)
_wait_for_draft_cover(polls, title, k) ==
    IF k > Len(polls) THEN FALSE
    ELSE IF _draft_item_has_cover(polls[k], title) THEN TRUE
    ELSE _wait_for_draft_cover(polls, title, k + 1)

\* what _wait_for_draft_cover returns over the titles, the draft lists and
\* the polls at which the covers render
CoverWaitResults ==
    { _wait_for_draft_cover(CoverPolls(items, loads_at), title, 1) :
        title \in Titles, items \in DraftLists, loads_at \in 1..(Polls + 1) }

\* lines 864-867: cover_ready = _wait_for_draft_cover(page, post.title); the
\* step is recorded as success whatever the wait returned
step_wait_for_draft_cover ==
    /\ Running("wait_for_draft_cover")
    /\ \/ \E ready \in CoverWaitResults :
            /\ cover_ready' = ready
            /\ Succeed("ready=" \o PyBool(ready), "snapshot_draft_box")
       \/ /\ Raise(LastDetail, PageError)
          /\ UNCHANGED cover_ready
    /\ UNCHANGED <<fixed, evidence, outv, caught, returning, ctxv, before_count, stov>>

\* lines 869-873
step_snapshot_draft_box ==
    /\ Running("snapshot_draft_box")
    /\ Snapshot("draft_box.png", "html_draft_box")

\* lines 875-879
step_html_draft_box ==
    /\ Running("html_draft_box")
    /\ Snapshot("draft_box.html", "verify_draft_box_item")

\* _verify_draft_item (lines 482-483)
_verify_draft_item(items, title) == _draft_item_has_cover(items, title)

\* what _verify_draft_item returns over the titles and the draft lists
VerifyResults ==
    { _verify_draft_item(items, title) : title \in Titles, items \in DraftLists }

\* mutant: the last step succeeds but result is never set to saved_draft
step_verify_draft_box_item_no_result ==
    /\ Running("verify_draft_box_item")
    /\ \/ \E verified \in VerifyResults :
            LET detail == "verified=" \o PyBool(verified) IN
            IF verified /\ cover_ready
            THEN Succeed(detail, "close")
            ELSE Raise(detail, "draft box item missing title or image")
       \/ Raise(LastDetail, PageError)
    /\ UNCHANGED <<fixed, evidence, outv, caught, returning, ctxv, locv, stov>>

\* lines 881-888: _verify_draft_item, then result = "saved_draft" and the
\* inner try block ends
step_verify_draft_box_item ==
    /\ Running("verify_draft_box_item")
    /\ \/ \E verified \in VerifyResults :
            LET detail == "verified=" \o PyBool(verified) IN
            IF verified /\ cover_ready
            THEN /\ Succeed(detail, "close")
                 /\ result' = "saved_draft"
                 /\ result_writes' = result_writes + 1
            ELSE /\ Raise(detail, "draft box item missing title or image")
                 /\ UNCHANGED <<result, result_writes>>
       \/ /\ Raise(LastDetail, PageError)
          /\ UNCHANGED <<result, result_writes>>
    /\ UNCHANGED <<fixed, evidence, error, exec_steps, caught, returning, ctxv, locv, stov>>

----------------------------------------------------------------------------
(* lines 889-898: the cleanup path *)

\* lines 889-890: finally: context.close().  A close that raises replaces
\* the exception in flight (which becomes its __context__) and cancels a
\* pending return.
context_close ==
    /\ pc = "close"
    /\ close_calls' = close_calls + 1
    /\ \/ /\ context' = "closed"
          /\ pc' = IF raised = <<>> THEN "finally" ELSE "except"
          /\ UNCHANGED <<raised, returning>>
       \/ /\ raised' = <<CloseError>> \o raised
          /\ returning' = FALSE
          /\ pc' = "except"
          /\ UNCHANGED context
    /\ UNCHANGED <<fixed, evidence, started, steps, outv, caught, locv, stov>>

\* mutant: the handler catches PlaywrightTimeoutError only, so every other
\* exception leaves the function
except_handler_timeouts_only ==
    /\ pc = "except"
    /\ pc' = "finally"
    /\ UNCHANGED <<fixed, evidence, started, steps, outv, excv, ctxv, locv, stov>>

\* lines 891-893: except Exception as exc: result = "failed";
\* error = {"message": str(exc)}
except_handler ==
    /\ pc = "except"
    /\ result' = "failed"
    /\ result_writes' = result_writes + 1
    /\ error' = Some(Head(raised))
    /\ caught' = raised
    /\ raised' = <<>>
    /\ pc' = "finally"
    /\ UNCHANGED <<fixed, evidence, started, steps, exec_steps, returning, ctxv, locv, stov>>

\* src/src/storage/files.py lines 81-84: the record written for the execution
save_execution(rec) == Append(saved, rec)

\* mutant: save_execution(exec_rec) is called before exec_rec.steps = steps
finally_save_before_steps ==
    /\ pc = "finally"
    /\ exec_steps' = steps
    /\ saved' = save_execution(ExecRec)
    /\ pc' = IF raised = <<>> THEN "return" ELSE "propagate"
    /\ UNCHANGED <<fixed, evidence, started, steps, result, error, result_writes, excv, ctxv, locv, returned>>

\* lines 894-896: finally: exec_rec.steps = steps; save_execution(exec_rec)
finally_save ==
    /\ pc = "finally"
    /\ exec_steps' = steps
    /\ saved' = save_execution([result |-> result, error |-> error, steps |-> steps])
    /\ pc' = IF raised = <<>> THEN "return" ELSE "propagate"
    /\ UNCHANGED <<fixed, evidence, started, steps, result, error, result_writes, excv, ctxv, locv, returned>>

\* lines 717, 724, 898: return exec_rec
return_exec ==
    /\ pc = "return"
    /\ returned' = Some(ExecRec)
    /\ pc' = "done"
    /\ UNCHANGED <<fixed, evidence, started, steps, outv, excv, ctxv, locv, saved>>

----------------------------------------------------------------------------
Next ==
    \/ begin_step
    \/ resolve_profile
    \/ step_launch
    \/ get_page
    \/ step_open_page
    \/ step_login_hold
    \/ make_evidence_dir
    \/ step_page_state
    \/ step_screenshot_before_wait
    \/ step_html_before_wait
    \/ step_frame_info
    \/ step_wait_for_publish_ui
    \/ step_wait_for_editor
    \/ login_only_exit
    \/ dry_run_exit
    \/ upload_branch
    \/ step_upload_images
    \/ step_wait_for_upload_complete
    \/ step_wait_for_processing_done
    \/ step_select_cover
    \/ step_snapshot_after_upload
    \/ step_wait_for_editor_after_upload
    \/ step_fill_title_body
    \/ step_verify_title_body
    \/ step_save_draft
    \/ step_confirm_leave
    \/ read_before_count
    \/ step_snapshot_after_save
    \/ step_verify_draft_saved
    \/ step_open_draft_box
    \/ step_open_draft_tab
    \/ step_wait_for_draft_items
    \/ step_wait_for_draft_cover
    \/ step_snapshot_draft_box
    \/ step_html_draft_box
    \/ step_verify_draft_box_item
    \/ context_close
    \/ except_handler
    \/ finally_save
    \/ return_exec

Spec == Init /\ [][Next]_vars

----------------------------------------------------------------------------
(* Vocabulary of the properties *)

Names(ledger) == [i \in 1..Len(ledger) |-> ledger[i].name]

IsPrefix(s, t) == Len(s) <= Len(t) /\ \A i \in 1..Len(s) : s[i] = t[i]

StepNames == {PipelineOrder[i] : i \in 1..Len(PipelineOrder)}

\* rank of a step name in the declared order
Pos == [name \in StepNames |-> CHOOSE i \in 1..Len(PipelineOrder) : PipelineOrder[i] = name]

\* no step name is recorded twice
NoDuplicates(ledger) ==
    Cardinality({ledger[i].name : i \in 1..Len(ledger)}) = Len(ledger)

Results == {"pending", "login_ready", "saved_draft", "failed"}

Returned == pc = "done"

\* the exception chain of the run, in flight or caught
Chain == IF raised # <<>> THEN raised ELSE caught

\* the exception the run raised first
FirstError == Last(Chain)

\* the first exception came out of a ledger step (not out of a statement
\* between two steps, nor out of context.close())
StepFailed ==
    /\ Chain # <<>>
    /\ FirstError \notin {ProfileError, NewPageError, EvidenceDirError, CloseError}

CloseRaised == Chain # <<>> /\ Head(Chain) = CloseError

\* the run got past wait_for_editor
ReachedBranch ==
    \E i \in 1..Len(steps) : steps[i].name = "wait_for_editor" /\ steps[i].status = "success"

----------------------------------------------------------------------------
(* C1 *)

----------------------------------------------------------------------------
(* C2 *)

\* C2: when a pipeline step fails, the run is failed and the ledger entry of
\* the failing step (the last one) ends with status failed and a non-empty
\* detail.
C2_FailingStepRecordedFailed ==
    (Returned /\ StepFailed) =>
        /\ result = "failed"
        /\ Last(steps).status = "failed"
        /\ Last(steps).detail # ""

----------------------------------------------------------------------------
(* C3 *)

\* C3: no record handed to save_execution holds a step whose status is
\* in_progress.
C3_NoInProgressPersisted ==
    \A k \in 1..Len(saved) :
        \A i \in 1..Len(saved[k].steps) : saved[k].steps[i].status # "in_progress"

----------------------------------------------------------------------------
(* C4 *)

\* C4: exec_rec.result is assigned at most once during a run, and exactly
\* once by the time the run returns.
C4_ResultWrittenOnce ==
    /\ result_writes <= 1
    /\ Returned => result_writes = 1

----------------------------------------------------------------------------
(* C5 *)

\* C5: when a step fails, the failing step is the last entry of the ledger,
\* result is failed and error.message is the message of the error that the
\* failing step raised.
C5_FirstFailureAborts ==
    (Returned /\ StepFailed) =>
        /\ result = "failed"
        /\ error = Some(FirstError)
        /\ Last(steps).status # "success"
        /\ \A i \in 1..(Len(steps) - 1) : steps[i].status \in {"success", "skipped"}

----------------------------------------------------------------------------
(* C6 *)

\* the recorded names follow the declared order: each entry is a later
\* step of the declared order than the entry before it
NamesInPipelineOrder ==
    \A i \in 1..(Len(steps) - 1) : Pos[steps[i].name] < Pos[steps[i + 1].name]

\* one step of the run only appends to the ledger: no entry is removed or
\* renamed, and an entry that has a terminal status is never touched again
LedgerAppendOnly ==
    /\ Len(steps') >= Len(steps)
    /\ \A i \in 1..Len(steps) :
         /\ steps'[i].name = steps[i].name
         /\ steps[i].status # "in_progress" => steps'[i] = steps[i]

\* C6 as stated: the recorded names are a prefix of the declared pipeline
\* order and no name appears twice.
C6_NamesArePrefix ==
    /\ LET names == Names(steps) IN IsPrefix(names, PipelineOrder)
    /\ NoDuplicates(steps)

\* C6 amended: the ledger only grows by appending, and the recorded names
\* are a subsequence of the declared pipeline order (declared steps may be
\* left out, none is recorded out of order or twice).  Stated on every
\* step of the run, starting from the empty ledger.
C6_LedgerAppendOnlyInOrder ==
    [][ /\ LedgerAppendOnly
        /\ NamesInPipelineOrder'
        /\ NoDuplicates(steps') ]_vars

\* a complete run without login_hold: its ledger leaves a declared step out
C6_Witness ==
    /\ Returned
    /\ result = "saved_draft"
    /\ login_hold = 0
    /\ Len(steps) = Len(PipelineOrder) - 1

----------------------------------------------------------------------------
(* C7 *)

\* C7: save_execution is called exactly once per run, when result, error and
\* steps have their final values: the record it wrote is the Execution the
\* run returns.
C7_SavedOnceEqualsReturned ==
    /\ Len(saved) <= 1
    /\ pc \in {"return", "done"} => (Len(saved) = 1 /\ saved[1] = ExecRec)
    /\ pc \notin {"return", "done", "propagate"} => saved = <<>>
    /\ Returned => returned = Some(saved[1])

\* a run that failed in a step and whose close raised as well has returned
C7_Witness ==
    /\ Returned
    /\ Len(caught) = 2
    /\ Len(saved) = 1
    /\ saved[1].result = "failed"

----------------------------------------------------------------------------
(* C8 *)

\* C8: happy path.  A full run (neither dry_run nor login_only) with two
\* asset files in which no operation raises ends with result saved_draft,
\* no error, and verify_draft_box_item: success as the last ledger entry.
C8_HappyPath ==
    (Returned /\ ~dry_run /\ ~login_only /\ assets = 2 /\ caught = <<>>) =>
        /\ result = "saved_draft"
        /\ error = None
        /\ Last(steps).name = "verify_draft_box_item"
        /\ Last(steps).status = "success"

C8_Witness ==
    /\ Returned
    /\ ~dry_run /\ ~login_only /\ assets = 2 /\ caught = <<>>
    /\ returned[1].result = "saved_draft"

----------------------------------------------------------------------------
(* C9 *)

SaveNotConfirmed == Chain # <<>> /\ FirstError = "draft save verification failed"

\* C9 as stated: when the save is never confirmed the run ends failed with
\* that message, and every step recorded before verify_draft_saved has
\* status success.
C9_SaveNeverConfirmed ==
    (Returned /\ SaveNotConfirmed) =>
        /\ result = "failed"
        /\ error = Some("draft save verification failed")
        /\ Last(steps).name = "verify_draft_saved"
        /\ \A i \in 1..(Len(steps) - 1) : steps[i].status = "success"

\* C9 amended: when the save is never confirmed the run ends failed; the
\* message is "draft save verification failed", or the close error when
\* context.close() raised while that error propagated; every step recorded
\* before verify_draft_saved has status success, except upload_images,
\* which is skipped when the run had no usable asset.
C9_SaveNeverConfirmedAmended ==
    (Returned /\ SaveNotConfirmed) =>
        /\ result = "failed"
        /\ error = Some(IF CloseRaised THEN CloseError ELSE "draft save verification failed")
        /\ Last(steps).name = "verify_draft_saved"
        /\ \A i \in 1..(Len(steps) - 1) :
             IF steps[i].name = "upload_images" /\ assets = 0
             THEN steps[i].status = "skipped"
             ELSE steps[i].status = "success"

C9_Witness ==
    /\ Returned
    /\ SaveNotConfirmed
    /\ assets = 2
    /\ Last(steps).detail = "toast=none before=0 after=0"

----------------------------------------------------------------------------
(* C10 *)

DryRunLedgerTail(ledger) ==
    /\ Len(ledger) >= 3
    /\ \A k \in 0..2 :
         /\ ledger[Len(ledger) - 2 + k].name = <<"upload_images", "fill_title_body", "save_draft">>[k + 1]
         /\ ledger[Len(ledger) - 2 + k].status = "skipped"

\* C10 as stated: whenever dry_run is true (and the run got as far as the
\* editor) the ledger ends with upload_images, fill_title_body and
\* save_draft, each skipped, and result is pending.
C10_DryRun ==
    (Returned /\ dry_run /\ ReachedBranch) =>
        /\ DryRunLedgerTail(steps)
        /\ result = "pending"

\* C10 amended: whenever dry_run is true, login_only is false and the steps
\* through wait_for_editor succeeded, the ledger ends with upload_images,
\* fill_title_body and save_draft, each skipped, wait_for_editor is the
\* entry before them, and result is pending, unless context.close() raised
\* (then result is failed).
C10_DryRunAmended ==
    (Returned /\ dry_run /\ ~login_only /\ ReachedBranch) =>
        /\ DryRunLedgerTail(steps)
        /\ steps[Len(steps) - 3].name = "wait_for_editor"
        /\ result = IF CloseRaised THEN "failed" ELSE "pending"

C10_Witness ==
    /\ Returned
    /\ dry_run /\ ~login_only
    /\ returned[1].result = "pending"
    /\ DryRunLedgerTail(returned[1].steps)

----------------------------------------------------------------------------
(* C11 *)

NoDraftButton == Chain # <<>> /\ FirstError = "draft button not found"

\* C11: when _click_draft exhausts every candidate (by role, by button text,
\* by button text after opening the publish menu), the run ends with result
\* failed, error.message is "draft button not found", and save_draft is the
\* last entry of the ledger.
C11_NoDraftButton ==
    (Returned /\ NoDraftButton) =>
        /\ result = "failed"
        /\ error = Some("draft button not found")
        /\ Last(steps).name = "save_draft"

----------------------------------------------------------------------------
(* C12 *)

UploadStepNames == {"wait_for_upload_complete", "wait_for_processing_done", "select_cover"}

\* C12: when zero usable asset files are supplied, upload_images is only
\* ever recorded with status skipped (never in_progress, success or failed),
\* no upload wait and no cover selection is recorded, and right after the
\* entry upload_images: skipped (no assets) the run goes on, with no error
\* and no return pending, to the steps that lead to the text fields.
C12_NoAssetsUploadSkipped ==
    assets = 0 =>
        /\ \A i \in 1..Len(steps) :
             /\ steps[i].name = "upload_images" => steps[i].status = "skipped"
             /\ steps[i].name \notin UploadStepNames
        /\ (steps # <<>> /\ Last(steps) = StepResult("upload_images", "skipped", "no assets")) =>
             /\ pc = "snapshot_after_upload"
             /\ raised = <<>>
             /\ ~returning

\* a run without assets has filled the text fields
C12_Witness ==
    /\ assets = 0
    /\ \E i \in 1..Len(steps) : steps[i] = StepResult("upload_images", "skipped", "no assets")
    /\ Last(steps).name = "fill_title_body"
    /\ Last(steps).status = "success"

----------------------------------------------------------------------------
(* C13 *)

\* the ledger holds the entry `name: success` with this detail
Succeeded(name, detail) ==
    \E i \in 1..Len(steps) : steps[i] = StepResult(name, "success", detail)

\* the ledger holds an entry `name` that is not a skipped one
Started(name) ==
    \E i \in 1..Len(steps) : steps[i].name = name /\ steps[i].status # "skipped"

UploadErrors == {"file input not found", "upload count not ready", "upload processing not finished"}

\* C13: with at least one asset, fill_title_body is started only after
\* upload_images succeeded, _wait_for_upload_ready returned True and
\* _wait_for_processing_done returned True; a failed upload or a failure of
\* either wait ends the run with result failed and without fill_title_body.
C13_NoPartialUpload ==
    assets > 0 =>
        /\ Started("fill_title_body") =>
             /\ Succeeded("upload_images", ToString(assets) \o " files via " \o UploadMethod)
             /\ Succeeded("wait_for_upload_complete", "confirmed=True")
             /\ Succeeded("wait_for_processing_done", "processed=True")
        /\ (Chain # <<>> /\ FirstError \in UploadErrors) =>
             /\ ~Started("fill_title_body")
             /\ pc \in {"close", "except", "finally", "return", "done"}
             /\ Returned => result = "failed"

\* a run whose processing wait timed out has returned
C13_Witness ==
    /\ Returned
    /\ assets > 0
    /\ Chain # <<>>
    /\ FirstError = "upload processing not finished"
    /\ Last(steps) = StepResult("wait_for_processing_done", "in_progress", "processed=False")

----------------------------------------------------------------------------
(* C14 *)

Toasts == {"none"} \cup {SAVE_OK_TEXTS[i] : i \in 1..Len(SAVE_OK_TEXTS)}

\* for each baseline, the details verify_draft_saved writes when a toast was
\* seen or the counter was read above the baseline, and those it writes when
\* neither happened
ConfirmingTable ==
    [before \in DraftCounts |->
        {VerifyDetail(t, before, a) : t \in Toasts \ {"none"}, a \in DraftCountsAfter}
        \cup {VerifyDetail("none", before, a) :
                 a \in {x \in DraftCountsAfter : CountIncreased(before, x)}}]

UnconfirmingTable ==
    [before \in DraftCounts |->
        {VerifyDetail("none", before, a) :
           a \in {x \in DraftCountsAfter : ~CountIncreased(before, x)}}]

ConfirmingDetails == ConfirmingTable[before_count]
UnconfirmingDetails == UnconfirmingTable[before_count]

\* C14: once both waits of verify_draft_saved are over, the step is recorded
\* as success if and only if a saved toast was seen or the draft counter was
\* read strictly above its baseline (either one is enough), and it fails
\* with "draft save verification failed" if and only if neither was.
C14_EitherSignalConfirms ==
    /\ \A i \in 1..Len(steps) :
         (steps[i].name = "verify_draft_saved" /\ steps[i].detail # "") =>
             /\ steps[i].detail \in ConfirmingDetails \cup UnconfirmingDetails
             /\ steps[i].status = "success" <=> steps[i].detail \in ConfirmingDetails
             /\ steps[i].status # "success" => SaveNotConfirmed
    /\ SaveNotConfirmed => Last(steps).detail \in UnconfirmingDetails

\* the counter alone has confirmed a save: no toast, counter from 0 to 1
C14_Witness ==
    Succeeded("verify_draft_saved", "toast=none before=0 after=1")

----------------------------------------------------------------------------
(* C15 *)

\* the save control was clicked
SaveClicked ==
    \E i \in 1..Len(steps) : steps[i].name = "save_draft" /\ steps[i].status = "success"

\* the leave dialog was gone through
LeaveTried == \E i \in 1..Len(steps) : steps[i].name = "confirm_leave"

\* C15: the baseline of the draft counter is read before the save-draft
\* click: when the run is about to read it, neither the save click nor the
\* pass over the leave dialog has happened yet.
C15_BaselineBeforeSaveClick ==
    pc = "before_count" => (~SaveClicked /\ ~LeaveTried)

----------------------------------------------------------------------------
(* C16 *)

\* _draft_item_has_cover returns True only for a list that holds an item
\* whose text contains the snippet of the title and which has a cover
DraftItemSound ==
    \A title \in Titles, items \in DraftLists :
        _draft_item_has_cover(items, title) =>
            \E i \in 1..Len(items) :
                Includes(items[i].text, Snippet(title)) /\ items[i].cover

\* a list in which no item containing the snippet has a cover is refused,
\* whatever covers the other items have
DraftItemStrict ==
    \A title \in Titles, items \in DraftLists :
        (\A i \in 1..Len(items) : Includes(items[i].text, Snippet(title)) => ~items[i].cover)
            => ~_draft_item_has_cover(items, title)

\* C16: result is saved_draft only if _wait_for_draft_cover and
\* _verify_draft_item both returned True, which they do only on a draft list
\* holding an item whose text contains the snippet of the title and which
\* has a cover (an item with the title and no cover is not enough); and a
\* run whose cover wait returned False ends with result failed.
C16_SavedDraftNeedsCover ==
    /\ DraftItemSound
    /\ DraftItemStrict
    /\ result = "saved_draft" =>
         /\ cover_ready
         /\ Succeeded("wait_for_draft_cover", "ready=True")
         /\ Succeeded("verify_draft_box_item", "verified=True")
    /\ Succeeded("wait_for_draft_cover", "ready=False") =>
         /\ result # "saved_draft"
         /\ Returned => result = "failed"

\* a run whose cover wait timed out went on to verify_draft_box_item, which
\* found the item with its cover, and has returned failed
C16_Witness ==
    /\ Returned
    /\ Succeeded("wait_for_draft_cover", "ready=False")
    /\ Last(steps) = StepResult("verify_draft_box_item", "in_progress", "verified=True")
    /\ result = "failed"

----------------------------------------------------------------------------
(* C17 *)

\* C17: cover selection is never fatal: no error comes out of the
\* select_cover step, so its entry is in_progress only while the step is
\* running and the run never ends on it.
C17_CoverNeverFatal ==
    \A i \in 1..Len(steps) :
        (steps[i].name = "select_cover" /\ steps[i].status = "in_progress") =>
            (pc = "select_cover" /\ Chain = <<>>)

----------------------------------------------------------------------------
(* C18 *)

\* the details of fill_title_body and verify_title_body that report a field
\* as not matching
MismatchDetails ==
    { "title=" \o PyBool(p[1]) \o " body=" \o PyBool(p[2]) :
        p \in {q \in BOOLEAN \X BOOLEAN : ~(q[1] /\ q[2])} }

\* C18: the save-draft step is started only after verify_title_body found
\* both the title and the body; a fill that reports a field as not filled is
\* recorded as success and the run goes on to verify_title_body; a
\* verification that reports a field as not matching ends the run there with
\* "title/body not filled".
C18_SaveOnlyAfterVerify ==
    /\ Started("save_draft") => Succeeded("verify_title_body", "title=True body=True")
    /\ \A i \in 1..Len(steps) :
         /\ (steps[i].name = "fill_title_body" /\ steps[i].detail \in MismatchDetails) =>
               /\ steps[i].status = "success"
               /\ i = Len(steps) => (pc = "verify_title_body" /\ Chain = <<>>)
         /\ (steps[i].name = "verify_title_body" /\ steps[i].detail \in MismatchDetails) =>
               /\ steps[i].status = "in_progress"
               /\ i = Len(steps)
               /\ Chain # <<>>
               /\ FirstError = "title/body not filled"

\* a fill that reported the title as not filled was followed by a
\* verification that did not find the title either, and the run has returned
C18_Witness ==
    /\ Returned
    /\ Succeeded("fill_title_body", "title=False body=True")
    /\ Last(steps) = StepResult("verify_title_body", "in_progress", "title=False body=True")
    /\ result = "failed"

----------------------------------------------------------------------------
(* C19 *)

\* the steps that run a bounded wait whose timeout raises, with the message
\* of the error the timeout raises
TimeoutMessages ==
    [name \in {"wait_for_publish_ui", "wait_for_editor", "wait_for_editor_after_upload",
               "wait_for_upload_complete", "wait_for_processing_done",
               "verify_draft_saved", "wait_for_draft_items"} |->
        CASE name = "wait_for_publish_ui" -> TimeoutError("of: WAIT_TEXTS")
          [] name = "wait_for_editor" -> TimeoutError("selector: EDITOR_SELECTORS")
          [] name = "wait_for_editor_after_upload" -> TimeoutError("selector: EDITOR_AFTER_UPLOAD_SELECTORS")
          [] name = "wait_for_upload_complete" -> "upload count not ready"
          [] name = "wait_for_processing_done" -> "upload processing not finished"
          [] name = "verify_draft_saved" -> "draft save verification failed"
          [] name = "wait_for_draft_items" -> "Timeout 30000ms exceeded"]

\* the details a step writes when its wait ran out
TimeoutDetails(name) ==
    CASE name = "wait_for_upload_complete" -> {"confirmed=False"}
      [] name = "wait_for_processing_done" -> {"processed=False"}
      [] name = "verify_draft_saved" -> UnconfirmingDetails
      [] name = "wait_for_draft_items" -> {"timeout"}
      [] OTHER -> {}

\* a wait of publish UI, editor, upload count, processing, save confirmation
\* or draft items that ran out is an error of its step: the step is the last
\* entry of the ledger and is not recorded as success
FatalTimeouts ==
    /\ \A name \in DOMAIN TimeoutMessages :
         (Chain # <<>> /\ FirstError = TimeoutMessages[name]) =>
             /\ Last(steps).name = name
             /\ Last(steps).status # "success"
    /\ \A i \in 1..Len(steps) :
         steps[i].detail \in TimeoutDetails(steps[i].name) =>
             /\ i = Len(steps)
             /\ steps[i].status # "success"
             /\ Chain # <<>>
             /\ FirstError = TimeoutMessages[steps[i].name]

\* the cover wait ran out: _wait_for_draft_cover returned False
CoverTimedOut(i) == steps[i].name = "wait_for_draft_cover" /\ steps[i].detail = "ready=False"

----------------------------------------------------------------------------
(* C20 *)

\* launch_persistent_context returned a context
Launched == context # "none"

----------------------------------------------------------------------------
(* C21 *)

\* the files the checkpoints of the pipeline write (lines 680, 686, 759, 810,
\* 870, 876)
CheckpointFiles ==
    {"before_wait.png", "before_wait.html", "after_upload.png", "after_save.png",
     "draft_box.png", "draft_box.html"}

\* C21: when a step fails on a page that has an evidence directory, the run
\* returns with a screenshot and a DOM dump of the page at the time of the
\* failure in that directory, in addition to the files of the checkpoints.
C21_FailureEvidence ==
    (Returned /\ StepFailed /\ Started("page_state")) =>
        Cardinality(evidence \ CheckpointFiles) >= 2

----------------------------------------------------------------------------
(* C22 *)

\* C22: at return the Execution carries a top-level error if and only if
\* result is failed; on a failed run error.message is the message of the
\* error that triggered the failure, and error is unset when result is
\* saved_draft, pending or login_ready.
C22_ErrorIffFailed ==
    Returned =>
        /\ error # None <=> result = "failed"
        /\ result = "failed" => Chain # <<>> /\ error = Some(FirstError)
        /\ result \in {"saved_draft", "pending", "login_ready"} => error = None

----------------------------------------------------------------------------
(* _matches_value, lines 592-599, applied to one pair of strings *)

\* the longest read-back and expected values drawn
MaxActual == 4
MaxExpected == 5

\* strings are sequences of characters: two letters and the blank
MatchChars == {"a", "b", " "}
Texts(n) == UNION {[1..k -> MatchChars] : k \in 0..n}

\* line 598: snippet = expected[:4]
MATCH_LEN == 4

\* mutant: the snippet is cut from expected as passed, not stripped
_matches_value_unstripped(act, exp) ==
    IF act = <<>> THEN FALSE
    ELSE IF Strip(exp) = <<>> THEN TRUE
    ELSE Includes(act, SubSeq(exp, 1, Min(MATCH_LEN, Len(exp))))

\* lines 592-599
_matches_value(act, exp) ==
    IF act = <<>> THEN FALSE
    ELSE LET stripped == Strip(exp) IN
         IF stripped = <<>> THEN TRUE
         ELSE Includes(act, SubSeq(stripped, 1, Min(MATCH_LEN, Len(stripped))))

InitMatch ==
    /\ actual \in Texts(MaxActual)
    /\ expected \in Texts(MaxExpected)
    /\ matches = None
    /\ NoRun /\ NoLater /\ NoResolution /\ NoAttempts /\ NoImages

\* the call _matches_value(actual, expected) returns
call_matches_value ==
    /\ matches = None
    /\ matches' = Some(_matches_value(actual, expected))
    /\ UNCHANGED <<actual, expected, runv, later, resv, attv, imgv>>

NextMatch == call_matches_value

SpecMatch == InitMatch /\ [][NextMatch]_vars

----------------------------------------------------------------------------
(* C23 *)

\* `sub` occurs in `text` as a run of consecutive characters
Occurs(sub, text) ==
    \E k \in 0..(Len(text) - Len(sub)) : \A j \in 1..Len(sub) : text[k + j] = sub[j]

\* the first n characters of s
FirstChars(s, n) == [j \in 1..Min(n, Len(s)) |-> s[j]]

\* s without its leading and trailing blanks
Trimmed(s) ==
    LET inked == {j \in 1..Len(s) : s[j] # " "} IN
    IF inked = {} THEN <<>>
    ELSE LET lo == CHOOSE j \in inked : \A m \in inked : j <= m
             hi == CHOOSE j \in inked : \A m \in inked : j >= m
         IN [j \in 1..(hi - lo + 1) |-> s[lo + j - 1]]

\* C23 as stated: _matches_value(actual, expected) is true if and only if
\* expected is non-empty and the first 4 characters of expected occur as a
\* substring of actual.
C23_MatchesValue ==
    matches # None =>
        matches = Some(expected # <<>> /\ Occurs(FirstChars(expected, 4), actual))

\* C23, amended: _matches_value(actual, expected) is true if and only if
\* actual is non-empty and either expected is empty once its surrounding
\* blanks are stripped, or the first 4 characters of the stripped expected
\* occur as a substring of actual.
C23_MatchesValueAmended ==
    matches # None =>
        matches = Some(/\ actual # <<>>
                       /\ \/ Trimmed(expected) = <<>>
                          \/ Occurs(FirstChars(Trimmed(expected), 4), actual))

\* the predicate accepted a read-back for an expected value that begins with
\* a blank and is longer than the snippet, whose own first 4 characters do
\* not occur in the read-back
C23_Witness ==
    /\ matches = Some(TRUE)
    /\ Len(expected) > 4
    /\ expected[1] = " "
    /\ ~Occurs(FirstChars(expected, 4), actual)

----------------------------------------------------------------------------
(* C24 *)

\* C24: for an empty expected value the predicate is true for every actual
\* value, the empty string included.
C24_EmptyExpectedMatches ==
    (matches # None /\ expected = <<>>) => matches = Some(TRUE)

----------------------------------------------------------------------------
(* The candidate resolutions, lines 93-101, 114-122 and 163-167, applied   *)
(* to one declared list: one action per iteration of the helper's loop.    *)

\* the largest --wait-timeout, in seconds, drawn besides the default
MaxWaitSeconds == 6

\* lines 36-42
COVER_IMAGE_SELECTORS ==
    <<".el-dialog__body img", ".cover-dialog img", ".cover-list img", ".cover-item img",
      "div[role='dialog'] img">>

\* line 239: the list the cover dialog is waited for with
COVER_DIALOG_SELECTORS == COVER_IMAGE_SELECTORS \o <<"[role='dialog']", ".el-dialog">>

\* _locators_for_title (lines 301-312), with TITLE_HINTS of line 24:
\* u586bu5199u6807u9898, u6807u9898, u66f4u591au8d5e
TITLE_SELECTORS ==
    <<"input[placeholder*='fill-title']", "input[placeholder*='title']",
      "input[placeholder*='more-likes']", "input[aria-label*='title']",
      "input[type='text']", "input:not([type='file'])">>

\* _locators_for_body (lines 315-325), with BODY_HINTS of line 25:
\* u8f93u5165u6b63u6587, u6b63u6587, u586bu5199u6b63u6587
BODY_SELECTORS ==
    <<"textarea[placeholder*='enter-body']", "textarea[placeholder*='body']",
      "textarea[placeholder*='fill-body']", "textarea", "[contenteditable='true']">>

\* the lists each helper is called with
ListsOf(h) ==
    CASE h = "_wait_for_any_text" -> {WAIT_TEXTS, SAVE_OK_TEXTS}
      [] h = "_wait_for_any_locator" ->
            {EDITOR_SELECTORS, EDITOR_AFTER_UPLOAD_SELECTORS, COVER_DIALOG_SELECTORS}
      [] h = "_fill_with_selectors" -> {TITLE_SELECTORS, BODY_SELECTORS}

Waits == {"_wait_for_any_text", "_wait_for_any_locator"}

\* the budgets a wait is given: wait_timeout * 1000 of the command line
\* (cli.py line 218; 300 s by default), and the literals of lines 239, 710,
\* 772 and 819
Budgets ==
    {1000 * sec : sec \in 0..MaxWaitSeconds} \cup {10000, 20000, 60000, 120000, 300000}

Max(a, b) == IF a >= b THEN a ELSE b

\* lines 94, 115: the floor of a candidate's slice
MIN_SLICE_MS == 1000

\* mutant: the slice is the even share of the budget, without the floor
Per_even_share == timeout_ms \div Max(1, Len(selectors))

\* lines 94, 115: per = max(1000, timeout_ms // max(1, len(selectors)))
Per == Max(MIN_SLICE_MS, timeout_ms \div Max(1, Len(selectors)))

InitResolve ==
    /\ helper \in Waits \cup {"_fill_with_selectors"}
    /\ selectors \in ListsOf(helper)
    /\ visible \in SUBSET (1..Len(selectors))
    /\ IF helper \in Waits THEN timeout_ms \in Budgets ELSE timeout_ms = None
    /\ res_pc = "loop"
    /\ tried = <<>>
    /\ elapsed = 0
    /\ ret = None
    /\ NoRun /\ NoLater /\ NoMatch /\ NoAttempts /\ NoImages

\* the candidate the for loop is at
NextCandidate == Len(tried) + 1

\* mutant: the wait on the first candidate of the list always times out
try_candidate_misses_first ==
    /\ res_pc = "loop"
    /\ NextCandidate \in 1..Len(selectors)
    /\ tried' = Append(tried, selectors[NextCandidate])
    /\ elapsed' = IF helper \in Waits THEN elapsed + Per ELSE elapsed
    /\ IF NextCandidate \in visible /\ NextCandidate # 1
       THEN /\ res_pc' = "returned"
            /\ ret' = IF helper \in Waits THEN selectors[NextCandidate] ELSE "True"
       ELSE UNCHANGED <<res_pc, ret>>
    /\ UNCHANGED <<helper, selectors, visible, timeout_ms, runv, later, matv, attv, imgv>>

\* one iteration of the for loop: wait_for on the candidate with the slice
\* `per` (lines 96-100, 117-121), _fill_if_found on it (lines 164-166); the
\* candidate is returned, or True, when it matches, and the loop goes on
\* when it does not
try_candidate ==
    /\ res_pc = "loop"
    /\ NextCandidate \in 1..Len(selectors)
    /\ tried' = Append(tried, selectors[NextCandidate])
    /\ elapsed' = IF helper \in Waits THEN elapsed + Per ELSE elapsed
    /\ IF NextCandidate \in visible
       THEN /\ res_pc' = "returned"
            /\ ret' = IF helper \in Waits THEN selectors[NextCandidate] ELSE "True"
       ELSE UNCHANGED <<res_pc, ret>>
    /\ UNCHANGED <<helper, selectors, visible, timeout_ms, runv, later, matv, attv, imgv>>

\* lines 101, 122: no candidate showed up within its slice
raise_timeout ==
    /\ res_pc = "loop"
    /\ helper \in Waits
    /\ Len(tried) = Len(selectors)
    /\ res_pc' = "raised"
    /\ ret' = TimeoutError(IF helper = "_wait_for_any_text" THEN "of" ELSE "selector")
    /\ UNCHANGED <<helper, selectors, visible, timeout_ms, tried, elapsed, runv, later, matv, attv, imgv>>

\* line 167: no candidate was filled
return_false ==
    /\ res_pc = "loop"
    /\ helper = "_fill_with_selectors"
    /\ Len(tried) = Len(selectors)
    /\ res_pc' = "returned"
    /\ ret' = "False"
    /\ UNCHANGED <<helper, selectors, visible, timeout_ms, tried, elapsed, runv, later, matv, attv, imgv>>

NextResolve ==
    \/ try_candidate
    \/ raise_timeout
    \/ return_false

SpecResolve == InitResolve /\ [][NextResolve]_vars

\* what the caller records of the value a resolution over `list` returned:
\* "matched ..." after the waits of the pipeline (lines 698, 712, 775), the
\* toast in the detail of verify_draft_saved (line 836), the flag of the
\* fill (line 779); the value of the cover dialog wait is dropped (line 239)
Detail(list, value) ==
    CASE list \in {WAIT_TEXTS, EDITOR_SELECTORS, EDITOR_AFTER_UPLOAD_SELECTORS} ->
            "matched " \o value
      [] list = SAVE_OK_TEXTS -> "toast=" \o value
      [] list = COVER_DIALOG_SELECTORS -> ""
      [] list = TITLE_SELECTORS -> "title=" \o value
      [] list = BODY_SELECTORS -> "body=" \o value

\* the value the helper returns when candidate i of its list matches
ReturnOf(h, list, i) == IF h \in Waits THEN list[i] ELSE "True"

----------------------------------------------------------------------------
(* C25 *)

\* the candidates tried so far are the first ones of the list, in order
TriedInOrder == IsPrefix(tried, selectors)

\* a resolution ends at the first candidate of the list that matches, and
\* with a failure only when none does
FirstMatchReturned ==
    res_pc # "loop" =>
        IF visible = {}
        THEN /\ tried = selectors
             /\ res_pc = "raised" \/ ret = "False"
        ELSE LET i == CHOOSE j \in visible : \A k \in visible : j <= k IN
             /\ res_pc = "returned"
             /\ Len(tried) = i
             /\ ret = ReturnOf(helper, selectors, i)
             /\ i = _wait_for_any(selectors, visible)

\* what the caller records after a match tells which candidate was used: no
\* other candidate of the list would have left the same record
DiagnosticIdentifies ==
    (res_pc = "returned" /\ visible # {}) =>
        \A j \in 1..Len(selectors) :
            j # Len(tried) =>
                Detail(selectors, ReturnOf(helper, selectors, j)) # Detail(selectors, ret)

\* C25: every resolution over a declared list tries the candidates strictly
\* in declared order and returns the first one that matches, and what is
\* recorded of it identifies the candidate used (the 3rd when only the 3rd
\* matches).
C25_FirstMatchInOrder ==
    /\ TriedInOrder
    /\ FirstMatchReturned
    /\ DiagnosticIdentifies

----------------------------------------------------------------------------
(* C26 *)

\* C26: a login-only run whose steps through wait_for_editor succeed ends
\* with result login_ready, whatever dry_run is, and wait_for_editor is the
\* last entry of its ledger: no upload, fill, save or draft-box step is
\* recorded or begun.
C26_LoginOnly ==
    (Returned /\ login_only /\ ReachedBranch) =>
        /\ result = "login_ready"
        /\ Last(steps).name = "wait_for_editor"

----------------------------------------------------------------------------
(* C27 *)

\* the steps that act on the page: they upload files, pick a cover, write
\* the title and the body, or click a save, leave or draft-box control
ActingSteps ==
    {"upload_images", "select_cover", "fill_title_body", "save_draft", "confirm_leave",
     "open_draft_box", "open_draft_tab"}

\* C27: in a run with dry_run = true no step that uploads a file, writes the
\* title or body, or clicks a save, leave-confirm or draft-box control is
\* ever begun: the run is never at such a step, and the ledger holds such a
\* step only as skipped.
C27_DryRunActsOnNothing ==
    dry_run => \A name \in ActingSteps : pc # name /\ ~Started(name)

\* a dry run got past wait_for_editor, recorded its skipped steps and
\* returned pending
C27_Witness ==
    /\ Returned
    /\ dry_run
    /\ ~login_only
    /\ result = "pending"
    /\ ReachedBranch
    /\ Last(steps) = StepResult("save_draft", "skipped", "dry_run")
    /\ evidence = {"before_wait.png", "before_wait.html"}

----------------------------------------------------------------------------
(* The callers of run_save_draft_sync and the executions directory of one  *)
(* post: apps/cli.py run and retry, apps/save_draft.py run, and            *)
(* save_execution / list_executions of src/src/storage/files.py.           *)

\* invocations followed for the post
MaxRuns == 3

InitAttempts ==
    /\ executions = {}
    /\ pending_runs = {}
    /\ clock = 0
    /\ NoRun /\ NoLater /\ NoMatch /\ NoResolution /\ NoImages

\* files.py lines 87-98: the executions on disk sorted by (attempt,
\* started_at); executions[-1], the last one of the list
LastExecution ==
    CHOOSE e \in executions :
        \A f \in executions :
            \/ f.attempt < e.attempt
            \/ f.attempt = e.attempt /\ f.started_at <= e.started_at

\* cli.py lines 39-41: max((e.attempt for e in executions), default=0) + 1
_next_attempt ==
    IF executions = {} THEN 1
    ELSE (CHOOSE a \in {e.attempt : e \in executions} :
              \A e \in executions : e.attempt <= a) + 1

\* an Execution is created with attempt number `attempt` and handed to
\* run_save_draft_sync, which persists it when it ends
StartRun(attempt) ==
    /\ clock' = clock + 1
    /\ pending_runs' = pending_runs \cup {[started_at |-> clock + 1, attempt |-> attempt]}
    /\ UNCHANGED <<executions, runv, later, matv, resv, imgv>>

\* cli.py lines 211-220: run
cli_run ==
    /\ clock < MaxRuns
    /\ StartRun(_next_attempt)

\* cli.py lines 422-438: retry, refused without a previous execution and,
\* unless forced, when the last one did not fail
cli_retry ==
    /\ clock < MaxRuns
    /\ executions # {}
    /\ \E force \in BOOLEAN : LastExecution.result = "failed" \/ force
    /\ StartRun(_next_attempt)

\* apps/save_draft.py lines 54-61: no execution is passed, so line 635 of
\* playwright_steps.py creates Execution(post_id, result="pending"), whose
\* attempt is the default of models.py line 82
DEFAULT_ATTEMPT == 1
save_draft_app ==
    /\ clock < MaxRuns
    /\ StartRun(DEFAULT_ATTEMPT)

\* playwright_steps.py lines 894-896: save_execution at the end of the run
persist_run ==
    /\ \E run \in pending_runs, res \in Results :
        /\ executions' = executions \cup
               {[started_at |-> run.started_at, attempt |-> run.attempt, result |-> res]}
        /\ pending_runs' = pending_runs \ {run}
    /\ UNCHANGED <<clock, runv, later, matv, resv, imgv>>

NextAttempts ==
    \/ cli_run
    \/ cli_retry
    \/ save_draft_app
    \/ persist_run

SpecAttempts == InitAttempts /\ [][NextAttempts]_vars

----------------------------------------------------------------------------
(* C28 *)

\* C28: attempt numbers increase per post: of two persisted Executions of
\* the post the one begun later has the strictly greater attempt number, so
\* no two persisted Executions share an attempt number.
C28_AttemptsIncrease ==
    \A e \in executions, f \in executions :
        e.started_at < f.started_at => e.attempt < f.attempt

----------------------------------------------------------------------------
(* fetch_and_download_related_images, src/src/images/auto_image.py lines   *)
(* 569-713: one call, with one action per call of the image generator.     *)

\* the most images asked for, and the largest *_IMAGE_MAX_ATTEMPTS set in
\* the environment
MaxImages == 2
MaxAttempts == 3

\* the providers a caller can name (line 589)
Providers == {"chatgpt_images", "chatgpt", "aliyun", "pexels"}

\* line 601: the providers served by generate_chatgpt_image
ChatGptProviders == {"chatgpt_images", "chatgpt"}

\* what a call of the generator does: it returns an image, or raises a
\* RuntimeError with one of these messages
GenerationErrors == {"timeout waiting for the image", "send failure", "not logged in"}
GeneratorOutcomes == {"image"} \cup GenerationErrors

RuntimeError(message) == [type |-> "RuntimeError", message |-> message]

InitImages ==
    /\ provider \in Providers
    /\ image_count \in 1..MaxImages
    /\ max_attempts \in 1..MaxAttempts
    /\ img_pc = "start"
    /\ gen_calls = <<>>
    /\ metas = <<>>
    /\ img_error = None
    /\ NoRun /\ NoLater /\ NoMatch /\ NoResolution /\ NoAttempts

\* line 601: if provider_name in ("chatgpt_images", "chatgpt")
select_provider ==
    /\ img_pc = "start"
    /\ img_pc' = IF provider \in ChatGptProviders THEN "generating" ELSE "searching"
    /\ UNCHANGED <<provider, image_count, max_attempts, gen_calls, metas, img_error,
                   runv, later, matv, resv, attv>>

\* lines 619-632, one iteration of `for _ in range(count)`: the generator
\* is called once; its result is appended to metas, its error leaves the
\* function
generate_image ==
    /\ img_pc = "generating"
    /\ \E outcome \in GeneratorOutcomes :
        /\ gen_calls' = Append(gen_calls, outcome)
        /\ IF outcome = "image"
           THEN /\ metas' = Append(metas, [mode |-> "chatgpt_images",
                                           query_original |-> "query"])
                /\ img_pc' = IF Len(metas') = image_count THEN "returned" ELSE "generating"
                /\ UNCHANGED img_error
           ELSE /\ img_error' = RuntimeError(outcome)
                /\ img_pc' = "raised"
                /\ UNCHANGED metas
    /\ UNCHANGED <<provider, image_count, max_attempts, runv, later, matv, resv, attv>>

\* lines 634-713, the loop over the queries: pexels finds and downloads
\* images or not; any other provider raises 'unsupported IMAGE_PROVIDER'
\* inside the try of every query (lines 660-665), so nothing is returned
search_images ==
    /\ img_pc = "searching"
    /\ \E found \in 0..image_count :
        /\ provider # "pexels" => found = 0
        /\ metas' = [i \in 1..found |-> [mode |-> "auto_image", provider |-> provider]]
        /\ IF found = 0
           THEN img_pc' = "raised" /\ img_error' = RuntimeError("no image returned")
           ELSE img_pc' = "returned" /\ UNCHANGED img_error
    /\ UNCHANGED <<provider, image_count, max_attempts, gen_calls, runv, later, matv, resv, attv>>

NextImages ==
    \/ select_provider
    \/ generate_image
    \/ search_images

SpecImages == InitImages /\ [][NextImages]_vars

----------------------------------------------------------------------------
(* C29 *)

\* the providers the claim is about
GenerativeProviders == {"chatgpt_images", "aliyun"}

\* the errors of the generator that are worth another attempt
Retryable == {"timeout waiting for the image", "send failure"}

\* the calls made for the image in hand: those since the last image returned
RECURSIVE CallsForLast(_)
CallsForLast(calls) ==
    IF calls = <<>> THEN 0
    ELSE IF Len(calls) > 1 /\ calls[Len(calls) - 1] = "image" THEN 1
    ELSE 1 + CallsForLast(SubSeq(calls, 1, Len(calls) - 1))

\* C29: with the chatgpt_images or aliyun provider, a retryable failure of
\* the generator is followed by another call until MAX_ATTEMPTS calls were
\* made for the image: the function gives up only after MAX_ATTEMPTS failed
\* calls, raising ImageGenerationAbandoned with attempts = MAX_ATTEMPTS, and
\* the meta of an image that attempt k produced records attempt = k.
C29_RetryUpToMaxAttempts ==
    provider \in GenerativeProviders =>
        /\ (img_pc = "raised" /\ gen_calls # <<>> /\ Last(gen_calls) \in Retryable) =>
              /\ CallsForLast(gen_calls) = max_attempts
              /\ img_error = [type |-> "ImageGenerationAbandoned", attempts |-> max_attempts]
        /\ img_pc = "returned" =>
              /\ gen_calls # <<>>
              /\ "attempt" \in DOMAIN Last(metas)
              /\ Last(metas).attempt = CallsForLast(gen_calls)

----------------------------------------------------------------------------
(* C30 *)

----------------------------------------------------------------------------
(* The operations on one locator: _first_visible (lines 104-111),           *)
(* _click_first (lines 418-425) and _fill_if_found (lines 133-160), applied *)
(* to the DOM hits of one candidate.                                        *)

\* the most DOM hits a candidate has
MaxHits == 2
\* the longest value written into a control
MaxValue == 1

\* a DOM hit: whether is_visible() holds of it, and whether it is a file input
Hits == [visible : BOOLEAN, file : BOOLEAN]

\* what the callers pass: a locator with 0..MaxHits hits (ctx.locator(sel),
\* page.get_by_role(...)); None is the other value the guard admits
Locators == {None} \cup {Some(h) : h \in UNION {[1..k -> Hits] : k \in 0..MaxHits}}

\* locator.count()
Count(loc) == Len(loc[1])

\* lines 104-111: the rank of the hit _first_visible returns, 0 for None
_first_visible(loc) ==
    IF Count(loc) = 0 THEN 0
    ELSE LET shown == {i \in 1..Count(loc) : loc[1][i].visible} IN
         IF shown # {} THEN CHOOSE i \in shown : \A j \in shown : i <= j
         ELSE 1

\* lines 577-589: _read_target_value, the stripped text of the control
_read_target_value == Strip(content)

InitFill ==
    /\ fn \in {"_click_first", "_fill_if_found"}
    /\ locator \in Locators
    /\ fill_value \in Texts(MaxValue)
    /\ content = <<>>
    /\ fill_pc = "call"
    /\ ops = <<>>
    /\ fret = None
    /\ NoRun /\ NoEarlier
    /\ NoFrames /\ NoPoll /\ NoClick /\ NoStorage

\* an operation on the hit of rank i is performed
Did(op, i) == ops' = Append(ops, <<op, i>>)

\* the call ends: it returns what it returns, or an exception leaves it
Return(v) == fret' = v /\ fill_pc' = "done"

\* lines 418-425: _click_first(locator)
call_click_first ==
    /\ fn = "_click_first"
    /\ fill_pc = "call"
    /\ IF locator = None \/ Count(locator) = 0
       THEN Return("False") /\ UNCHANGED ops
       ELSE LET target == _first_visible(locator) IN
            \/ Did("click", target) /\ Return("True")
            \/ Return("raised") /\ UNCHANGED ops
    /\ UNCHANGED <<fn, locator, fill_value, content>>
    /\ UNCHANGED <<runv, besides_fill>>

\* what target.fill(v) and target.type(v) leave in the control: the value,
\* or nothing when the editor ignores the assignment
Taken(v) == {v, <<>>}

\* lines 134-152: the guards, then click, fill and the first read-back.  The
\* errors of scroll_into_view_if_needed and press are swallowed (lines
\* 141-144, 147-150); those of get_attribute, click and fill are not.
fill_if_found_direct ==
    /\ fn = "_fill_if_found"
    /\ fill_pc = "call"
    /\ IF locator = None \/ Count(locator) = 0
       THEN Return("False") /\ UNCHANGED <<ops, content>>
       ELSE LET target == _first_visible(locator) IN
            \/ /\ locator[1][target].file
               /\ Return("False") /\ UNCHANGED <<ops, content>>
            \/ /\ ~locator[1][target].file
               /\ \E text \in Taken(fill_value) :
                    /\ content' = text
                    /\ LET read == _matches_value(Strip(text), fill_value) IN
                       /\ ops' = ops \o <<<<"click", target>>, <<"fill", target>>,
                                          <<"read", read>>>>
                       /\ IF read THEN Return("True")
                          ELSE fill_pc' = "retry" /\ UNCHANGED fret
            \/ \* target.get_attribute("type") or target.click() raises
               /\ Return("raised") /\ UNCHANGED <<ops, content>>
            \/ \* target.fill(value) raises
               /\ ~locator[1][target].file
               /\ ops' = Append(ops, <<"click", target>>)
               /\ Return("raised") /\ UNCHANGED content
    /\ UNCHANGED <<fn, locator, fill_value>>
    /\ UNCHANGED <<runv, besides_fill>>

\* lines 153-160: click, then fill(""), type and press, whose errors are
\* swallowed (the control keeps what it held when they fail), then the
\* second read-back
fill_if_found_typed ==
    /\ fn = "_fill_if_found"
    /\ fill_pc = "retry"
    /\ LET target == _first_visible(locator) IN
       \/ \E text \in Taken(fill_value) \cup {content} :
            /\ content' = text
            /\ LET read == _matches_value(Strip(text), fill_value) IN
               /\ ops' = ops \o <<<<"click", target>>, <<"clear", target>>,
                                  <<"type", target>>, <<"read", read>>>>
               /\ Return(PyBool(read))
       \/ \* target.click() raises
          /\ Return("raised") /\ UNCHANGED <<ops, content>>
    /\ UNCHANGED <<fn, locator, fill_value>>
    /\ UNCHANGED <<runv, besides_fill>>

NextFill ==
    \/ call_click_first
    \/ fill_if_found_direct
    \/ fill_if_found_typed

SpecFill == InitFill /\ [][NextFill]_vars

----------------------------------------------------------------------------
(* C31 *)

\* the candidate has DOM hits and none of them is visible
HiddenOnly ==
    IF locator = None THEN FALSE
    ELSE Count(locator) > 0 /\ \A i \in 1..Count(locator) : ~locator[1][i].visible

\* the hits the call clicked or wrote
Touched == {ops[k][2] : k \in {j \in 1..Len(ops) : ops[j][1] # "read"}}

\* C31: a candidate matches only through a visible hit, the first one: a call
\* of _click_first or _fill_if_found on a candidate whose hits are all hidden
\* touches no element and reports no match, and a hit that is touched is the
\* first visible one.
C31_OnlyVisibleHitUsed ==
    fill_pc = "done" =>
        /\ HiddenOnly => (Touched = {} /\ fret = "False")
        /\ \A i \in Touched :
             /\ locator[1][i].visible
             /\ \A j \in 1..(i - 1) : ~locator[1][j].visible

----------------------------------------------------------------------------
(* C32 *)

\* the call used the keystroke fallback
Typed == \E k \in 1..Len(ops) : ops[k][1] = "type"

\* C32: _fill_if_found assigns the value directly and reads the control
\* back; it clears the control and types the value only when that read-back
\* did not match; it returns the match of the last read-back; and it returns
\* False instead of raising when the fill fails.
C32_FillThenTypeFallback ==
    (fn = "_fill_if_found" /\ fill_pc = "done") =>
        /\ fret # "raised"
        /\ ops # <<>> =>
             /\ Len(ops) >= 3
             /\ ops[1][1] = "click" /\ ops[2][1] = "fill" /\ ops[3][1] = "read"
             /\ Typed => ops[3] = <<"read", FALSE>>
             /\ fret = PyBool(Last(ops)[2])

----------------------------------------------------------------------------
(* _fill_text_fields (lines 328-345) and _verify_title_body (lines 375-393) *)
(* over the documents of one page: the main document, the content sections  *)
(* of the main document, the nested frames.                                 *)

\* the most nested frames of the page, and the most content sections
MaxFrames == 2
MaxSections == 1

\* what the search of one document yields for the title and for the body:
\* _fill_in_context (lines 329-332), _verify_filled (lines 362-372)
Found == [title : BOOLEAN, body : BOOLEAN]

\* page.frames: the main frame first, then the nested frames
InitFrames ==
    /\ frm_fn \in {"_fill_text_fields", "_verify_title_body"}
    /\ \E m \in Found, k \in 0..MaxFrames :
         \E n \in [1..k -> Found] :
            frames = <<[main |-> TRUE, found |-> m]>>
                     \o [i \in 1..k |-> [main |-> FALSE, found |-> n[i]]]
    /\ IF frm_fn = "_verify_title_body"
       THEN sections \in UNION {[1..j -> Found] : j \in 0..MaxSections}
       ELSE sections = <<>>
    /\ frm_pc = "main"
    /\ frm_i = 0
    /\ fields_ok = [title |-> FALSE, body |-> FALSE]
    /\ searched = <<>>
    /\ NoRun /\ NoEarlier
    /\ NoFill /\ NoPoll /\ NoClick /\ NoStorage

\* title_ok = title_ok or ..., body_ok = body_ok or ...
Or(a, b) == [title |-> a.title \/ b.title, body |-> a.body \/ b.body]
Both(f) == f.title /\ f.body

\* line 376-377: contexts = [page] + _find_content_sections(page); line 334:
\* the page alone
Contexts ==
    <<frames[1].found>> \o (IF frm_fn = "_verify_title_body" THEN sections ELSE <<>>)

\* lines 380-384: the loop over the contexts up to its break; <<flags, n>>
\* with n the number of contexts searched
RECURSIVE OverContexts(_, _, _)
OverContexts(ctxs, acc, k) ==
    IF k > Len(ctxs) THEN <<acc, k - 1>>
    ELSE LET now == Or(acc, ctxs[k]) IN
         IF Both(now) THEN <<now, k>> ELSE OverContexts(ctxs, now, k + 1)

\* lines 334-336, 376-385: the main document
search_main_document ==
    /\ frm_pc = "main"
    /\ LET r == OverContexts(Contexts, fields_ok, 1) IN
       /\ fields_ok' = r[1]
       /\ searched' = [k \in 1..r[2] |-> <<"main", k>>]
       /\ frm_pc' = IF Both(r[1]) THEN "done" ELSE "frames"
       /\ frm_i' = 1
    /\ UNCHANGED <<frm_fn, frames, sections, runv, besides_frames>>

\* lines 338-339, 387-388: if frame == page.main_frame: continue
skip_main_frame ==
    /\ frm_pc = "frames"
    /\ frm_i \in 1..Len(frames)
    /\ frames[frm_i].main
    /\ frm_i' = frm_i + 1
    /\ UNCHANGED <<frm_fn, frames, sections, frm_pc, fields_ok, searched, runv, besides_frames>>

\* mutant: the loop over the frames has no break
search_frame_no_break ==
    /\ frm_pc = "frames"
    /\ frm_i \in 1..Len(frames)
    /\ ~frames[frm_i].main
    /\ fields_ok' = Or(fields_ok, frames[frm_i].found)
    /\ searched' = Append(searched, <<"frame", frm_i>>)
    /\ frm_i' = frm_i + 1
    /\ UNCHANGED frm_pc
    /\ UNCHANGED <<frm_fn, frames, sections, runv, besides_frames>>

\* lines 340-344, 389-392: one nested frame is searched, and the loop breaks
\* when both fields are satisfied
search_frame ==
    /\ frm_pc = "frames"
    /\ frm_i \in 1..Len(frames)
    /\ ~frames[frm_i].main
    /\ fields_ok' = Or(fields_ok, frames[frm_i].found)
    /\ searched' = Append(searched, <<"frame", frm_i>>)
    /\ frm_i' = frm_i + 1
    /\ frm_pc' = IF Both(fields_ok') THEN "done" ELSE "frames"
    /\ UNCHANGED <<frm_fn, frames, sections, runv, besides_frames>>

\* lines 345, 393: the loop is exhausted, the flags are returned
return_fields ==
    /\ frm_pc = "frames"
    /\ frm_i > Len(frames)
    /\ frm_pc' = "done"
    /\ UNCHANGED <<frm_fn, frames, sections, frm_i, fields_ok, searched, runv, besides_frames>>

NextFrames ==
    \/ search_main_document
    \/ skip_main_frame
    \/ search_frame
    \/ return_fields

SpecFrames == InitFrames /\ [][NextFrames]_vars

----------------------------------------------------------------------------
(* C33 *)

\* the frames of page.frames searched so far, in the order of the search
FramesSearched == SelectSeq(searched, LAMBDA e : e[1] = "frame")

\* what the main document yields, whatever the order of the search in it
MainDocument ==
    [title |-> \E k \in 1..Len(Contexts) : Contexts[k].title,
     body |-> \E k \in 1..Len(Contexts) : Contexts[k].body]

\* the flags once the main document and the first n searched frames are in
RECURSIVE After(_)
After(n) ==
    IF n = 0 THEN MainDocument
    ELSE Or(After(n - 1), frames[FramesSearched[n][2]].found)

\* C33: the nested frames are searched only when the main document did not
\* satisfy both the title and the body; the main frame is never searched as
\* a frame; and no frame is searched after one that left both satisfied.
C33_FramesOnlyWhenNeeded ==
    /\ FramesSearched # <<>> => ~Both(MainDocument)
    /\ \A n \in 1..Len(FramesSearched) :
         /\ ~frames[FramesSearched[n][2]].main
         /\ n < Len(FramesSearched) => ~Both(After(n))
    /\ frm_pc = "done" =>
         /\ fields_ok = After(Len(FramesSearched))
         /\ ~Both(fields_ok) => Len(FramesSearched) = Len(frames) - 1

\* a verification found the title in the main document and the body in the
\* first nested frame, and left the second nested frame alone
C33_Witness ==
    /\ frm_fn = "_verify_title_body"
    /\ frm_pc = "done"
    /\ Len(frames) = 3
    /\ MainDocument = [title |-> TRUE, body |-> FALSE]
    /\ FramesSearched = << <<"frame", 2>> >>
    /\ Both(fields_ok)

----------------------------------------------------------------------------
(* The polling loops: _wait_for_upload_ready (lines 524-535),               *)
(* _wait_for_draft_cover (568-574), _wait_for_processing_done (616-622) and *)
(* the poll of the draft counter (824-833), one call each.  Time is counted *)
(* in seconds from the call.                                                *)

\* the latest deadline drawn, in seconds (timeout_ms / 1000 is 120 in the
\* pipeline)
MaxDeadline == 3

\* the loops that end on a deadline, and the one that ends on a count
DeadlineLoops ==
    {"_wait_for_upload_ready", "_wait_for_draft_cover", "_wait_for_processing_done"}
CountLoops == {"draft_count_poll"}

\* time.sleep(1)
SLEEP_S == 1

\* lines 527, 569, 617: deadline = time.time() + timeout_ms / 1000.
\* _wait_for_upload_ready is called with expected = len(assets) > 0 (line
\* 740 under line 726), so its guard of line 525 does not return.
InitPoll ==
    /\ loop \in DeadlineLoops \cup CountLoops
    /\ time_s = 0
    /\ IF loop \in DeadlineLoops THEN deadline \in 0..MaxDeadline ELSE deadline = None
    /\ iters = 0
    /\ poll_pc = "test"
    /\ seen = FALSE
    /\ poll_ret = "running"
    /\ NoRun /\ NoEarlier
    /\ NoFill /\ NoFrames /\ NoClick /\ NoStorage

\* lines 528, 570, 618: while time.time() < deadline; line 824: for _ in
\* range(10).  The loop is left with False (lines 535, 574, 622; ok stays
\* as it was, line 816) when the test fails.
poll_test ==
    /\ poll_pc = "test"
    /\ IF (loop \in DeadlineLoops /\ time_s < deadline) \/ (loop \in CountLoops /\ iters < Polls)
       THEN poll_pc' = "check" /\ UNCHANGED poll_ret
       ELSE poll_pc' = "done" /\ poll_ret' = "False"
    /\ UNCHANGED <<loop, time_s, deadline, iters, seen, runv, besides_poll>>

\* lines 529-533, 571-572, 619-620, 825-832: the condition is read off the
\* page, which takes some time, and the loop returns True (sets ok and
\* breaks) when it holds.  page.evaluate of _draft_item_has_cover is the one
\* read that can raise (the others catch, lines 486-490, 501-507, 517-520,
\* 604-612).
poll_check ==
    /\ poll_pc = "check"
    /\ time_s' \in {time_s, time_s + 1}
    /\ \/ seen' = TRUE /\ poll_pc' = "done" /\ poll_ret' = "True"
       \/ seen' = FALSE /\ poll_pc' = "sleep" /\ UNCHANGED poll_ret
       \/ /\ loop = "_wait_for_draft_cover"
          /\ seen' = FALSE /\ poll_pc' = "done" /\ poll_ret' = "raised"
    /\ UNCHANGED <<loop, deadline, iters, runv, besides_poll>>

\* mutant: the sleep takes no time and the iteration is not counted
poll_sleep_stands_still ==
    /\ poll_pc = "sleep"
    /\ time_s' = time_s
    /\ iters' = iters
    /\ poll_pc' = "test"
    /\ UNCHANGED <<loop, deadline, seen, poll_ret, runv, besides_poll>>

\* lines 534, 573, 621, 833: time.sleep(1), then the next iteration
poll_sleep ==
    /\ poll_pc = "sleep"
    /\ time_s' = time_s + SLEEP_S
    /\ iters' = iters + 1
    /\ poll_pc' = "test"
    /\ UNCHANGED <<loop, deadline, seen, poll_ret, runv, besides_poll>>

NextPoll ==
    \/ poll_test
    \/ poll_check
    \/ poll_sleep

\* the thread that runs the loop is never suspended for ever, and every call
\* it makes on the page returns
SpecPoll == InitPoll /\ [][NextPoll]_vars /\ WF_vars(NextPoll)

----------------------------------------------------------------------------
(* C34 *)

PollDone == poll_pc = "done"

\* True is returned at the check that observes the condition, False only
\* past the deadline or the last iteration and without an observation
PollSound ==
    /\ seen <=> (PollDone /\ poll_ret = "True")
    /\ (PollDone /\ poll_ret = "False") =>
         IF loop \in DeadlineLoops THEN time_s >= deadline ELSE iters = Polls

\* C34: every polling loop ends: it returns True as soon as its condition is
\* observed, and False once its deadline or its iteration bound has passed,
\* provided each read of the page returns.
C34_PollingLoopsEnd == []PollSound /\ <>PollDone

\* its consequence for the run, where each loop is one step of its caller:
\* under the same condition on the thread, every run of SpecRunFair reaches
\* its return (RunEnds)
SpecRunFair == Spec /\ WF_vars(Next)
RunEnds == <>Returned

\* a wait for the end of the processing gave up after its deadline, having
\* slept between its checks
C34_Witness ==
    /\ loop = "_wait_for_processing_done"
    /\ PollDone
    /\ poll_ret = "False"
    /\ deadline = MaxDeadline
    /\ iters >= 2
    /\ time_s >= deadline

----------------------------------------------------------------------------
(* C35 *)

\* the steps a saved draft rests on, in the order of the pipeline
GateSteps == <<"verify_title_body", "save_draft", "verify_draft_saved", "verify_draft_box_item">>

\* the ranks at which `ledger` holds `name` with status success
SuccessAt(ledger, name) ==
    {i \in 1..Len(ledger) : ledger[i].name = name /\ ledger[i].status = "success"}

\* C35: in the Execution returned with result saved_draft every step is
\* success or skipped, and verify_title_body, save_draft, verify_draft_saved
\* and verify_draft_box_item are there with status success, in that order.
C35_SavedDraftLedger ==
    (Returned /\ returned[1].result = "saved_draft") =>
        LET ledger == returned[1].steps IN
        /\ \A i \in 1..Len(ledger) : ledger[i].status \in {"success", "skipped"}
        /\ \A k \in 1..Len(GateSteps) : SuccessAt(ledger, GateSteps[k]) # {}
        /\ \A k \in 1..(Len(GateSteps) - 1) :
             \A i \in SuccessAt(ledger, GateSteps[k]), j \in SuccessAt(ledger, GateSteps[k + 1]) :
                i < j

\* a draft was saved for a post without assets: its ledger holds the skipped
\* upload besides the steps that succeeded
C35_Witness ==
    /\ Returned
    /\ returned[1].result = "saved_draft"
    /\ \E i \in 1..Len(returned[1].steps) : returned[1].steps[i].status = "skipped"
    /\ Len(returned[1].steps) > Len(GateSteps)

----------------------------------------------------------------------------
(* C36 *)

\* the ranks of the entries of `ledger` still in_progress
InProgress(ledger) == {i \in 1..Len(ledger) : ledger[i].status = "in_progress"}

\* C36: in every returned Execution at most one entry is in_progress; it is
\* the last entry and the result is then failed; every entry before the last
\* is success or skipped.
C36_OneOpenEntryAtMost ==
    Returned =>
        LET ledger == returned[1].steps IN
        /\ InProgress(ledger) \subseteq {Len(ledger)}
        /\ InProgress(ledger) # {} => returned[1].result = "failed"
        /\ \A i \in 1..(Len(ledger) - 1) : ledger[i].status \in {"success", "skipped"}

\* a run failed at wait_for_processing_done, after two steps of the upload:
\* the entry of the wait is the one left in_progress
C36_Witness ==
    /\ Returned
    /\ returned[1].result = "failed"
    /\ Len(returned[1].steps) > 2
    /\ Last(returned[1].steps).name = "wait_for_processing_done"
    /\ InProgress(returned[1].steps) = {Len(returned[1].steps)}

----------------------------------------------------------------------------
(* _click_draft, lines 396-415, pass by pass on one page.                   *)

\* the most draft labels a pass finds on the page
MaxLabels == 1

\* lines 405-409: publish by role, publish-note by role, button with the
\* text publish (u53d1u5e03, u53d1u5e03u7b14u8bb0, u53d1u5e03)
PUBLISH_CANDIDATES ==
    <<"role:publish", "role:publish-note", "button:has-text('publish')">>

\* the labels of DRAFT_TEXTS, by rank, that a locator finds on the page
LabelSets == {ls \in SUBSET (1..Len(DRAFT_TEXTS)) : Cardinality(ls) <= MaxLabels}

\* the page: the draft labels found by role and by button text as the page
\* stands, those found by button text once a publish control was clicked,
\* and the publish candidates that have a hit
InitClick ==
    /\ buttons \in [role : LabelSets, text : LabelSets, menu : LabelSets,
                    publish : SUBSET (1..Len(PUBLISH_CANDIDATES))]
    /\ cd_pc = "role"
    /\ clicks = <<>>
    /\ cd_ret = None
    /\ NoRun /\ NoEarlier
    /\ NoFill /\ NoFrames /\ NoPoll /\ NoStorage

\* a pass over DRAFT_TEXTS: _click_first on each label in turn, up to the
\* first that clicks; the exception of a click leaves _click_draft
DraftPass(found, prefix, next) ==
    LET i == FirstFrom(DRAFT_TEXTS, found, 1) IN
    IF i = 0
    THEN /\ cd_pc' = next
         /\ cd_ret' = IF next = "done" THEN <<FALSE, "draft button not found">> ELSE cd_ret
         /\ UNCHANGED clicks
    ELSE \/ /\ clicks' = Append(clicks, <<"draft", DRAFT_TEXTS[i]>>)
            /\ cd_ret' = <<TRUE, prefix \o DRAFT_TEXTS[i]>>
            /\ cd_pc' = "done"
         \/ /\ cd_pc' = "raised"
            /\ UNCHANGED <<clicks, cd_ret>>

\* mutant: the pass by role clicks and goes on to the pass by button text
pass_by_role_goes_on ==
    /\ cd_pc = "role"
    /\ LET i == FirstFrom(DRAFT_TEXTS, buttons.role, 1) IN
       /\ clicks' = IF i = 0 THEN clicks ELSE Append(clicks, <<"draft", DRAFT_TEXTS[i]>>)
       /\ cd_pc' = "text"
       /\ UNCHANGED cd_ret
    /\ UNCHANGED <<buttons, runv, besides_click>>

\* lines 398-400
pass_by_role ==
    /\ cd_pc = "role"
    /\ DraftPass(buttons.role, "button:", "text")
    /\ UNCHANGED <<buttons, runv, besides_click>>

\* lines 401-403
pass_by_button_text ==
    /\ cd_pc = "text"
    /\ DraftPass(buttons.text, "button-text:", "publish")
    /\ UNCHANGED <<buttons, runv, besides_click>>

\* the publish clicks made so far
PublishClicked == \E k \in 1..Len(clicks) : clicks[k][1] = "publish"

\* lines 410-411: _click_first on every publish candidate, its result unused
open_publish_menu ==
    /\ cd_pc = "publish"
    /\ \/ /\ clicks' = clicks \o [k \in 1..Cardinality(buttons.publish) |->
                           <<"publish", PUBLISH_CANDIDATES[
                               CHOOSE c \in buttons.publish :
                                   Cardinality({d \in buttons.publish : d < c}) = k - 1]>>]
          /\ cd_pc' = "menu"
          /\ UNCHANGED cd_ret
       \/ /\ buttons.publish # {}
          /\ cd_pc' = "raised"
          /\ UNCHANGED <<clicks, cd_ret>>
    /\ UNCHANGED <<buttons, runv, besides_click>>

\* lines 412-415: the labels are searched again; the page shows the menu
\* when a publish control was clicked, and is as it was before otherwise
pass_in_menu ==
    /\ cd_pc = "menu"
    /\ DraftPass(IF PublishClicked THEN buttons.menu ELSE buttons.text, "menu:", "done")
    /\ UNCHANGED <<buttons, runv, besides_click>>

NextClick ==
    \/ pass_by_role
    \/ pass_by_button_text
    \/ open_publish_menu
    \/ pass_in_menu

SpecClick == InitClick /\ [][NextClick]_vars

----------------------------------------------------------------------------
(* C37 *)

\* the ranks of the clicks of one kind
ClicksOf(kind) == {k \in 1..Len(clicks) : clicks[k][1] = kind}

\* C37: _click_draft clicks a publish control only after the pass by role and
\* the pass by button text both found no draft label to click, and a call
\* that returns True has clicked exactly one draft-save control.
C37_OneDraftClick ==
    /\ \A k \in ClicksOf("publish") :
         /\ buttons.role = {} /\ buttons.text = {}
         /\ cd_pc \in {"menu", "done", "raised"}
         /\ \A j \in ClicksOf("draft") : j > k
    /\ (cd_pc = "done" /\ cd_ret[1] = TRUE) =>
         /\ Cardinality(ClicksOf("draft")) = 1
         /\ cd_ret = _click_draft(buttons.role, buttons.text,
                                  IF PublishClicked THEN buttons.menu ELSE {})

\* the save control was found in the publish menu: a publish control was
\* clicked, then one draft label
C37_Witness ==
    /\ cd_pc = "done"
    /\ cd_ret[1] = TRUE
    /\ PublishClicked
    /\ Last(clicks)[1] = "draft"

----------------------------------------------------------------------------
(* _wait_for_any_text and _wait_for_any_locator (lines 93-101, 114-122) on  *)
(* a page that changes during the call: candidates show up while the        *)
(* resolver waits.                                                          *)

InitArrive ==
    /\ InitResolve
    /\ helper \in Waits

\* lines 97, 118: wait_for(timeout=per) blocks while the page goes on
\* loading; a candidate that was not there shows up
candidate_appears ==
    /\ res_pc = "loop"
    /\ helper \in Waits
    /\ \E i \in (1..Len(selectors)) \ visible : visible' = visible \cup {i}
    /\ UNCHANGED <<helper, selectors, timeout_ms, res_pc, tried, elapsed, ret>>
    /\ UNCHANGED <<runv, later, matv, attv, imgv>>

NextArrive ==
    \/ try_candidate
    \/ raise_timeout
    \/ candidate_appears

SpecArrive == InitArrive /\ [][NextArrive]_vars

----------------------------------------------------------------------------
(* C38 *)

\* C38 as stated: a wait reports not-found only if no candidate was present
\* at any time during the call: no candidate is present at the moment the
\* resolver raises its timeout.
C38_NotFoundOnlyIfAbsent ==
    res_pc = "raised" => visible = {}

\* C38, amended: a wait reports not-found only if no candidate was present
\* during its own slice of the call: a candidate that is present while the
\* resolver waits for it is returned instead of the timeout being raised,
\* and the timeout is raised only after every candidate had its slice; a
\* candidate that shows up after its slice has ended is missed.
C38_NotFoundOnlyIfAbsentInSliceAmended ==
    [][ /\ (tried' # tried /\ NextCandidate \in visible) =>
              (res_pc' = "returned" /\ ret' = selectors[NextCandidate])
        /\ (res_pc = "loop" /\ res_pc' = "raised") => tried = selectors ]_vars

\* the resolver gave up while the first candidate of its list was on the
\* page: it had shown up after its slice
C38_Witness ==
    /\ res_pc = "raised"
    /\ 1 \in visible
    /\ Len(selectors) > 1

----------------------------------------------------------------------------
(* _write_json_atomic, src/src/storage/files.py lines 20-24, on one path:   *)
(* the calls that save a record follow one another, and the process can die *)
(* at any point of a call.                                                  *)

\* the calls made on the path, and the writes a document takes to reach the
\* disk
MaxWrites == 2
MaxChunks == 2

\* lines 47-50, 75-78, 81-84: save_post, save_revision, save_execution
RecordPaths == {"post.json", "revisions/<id>.json", "executions/<id>.json"}

\* a file holding the first `part` writes of the document of call `doc`
Document(doc, part) == [doc |-> doc, part |-> part]
Complete(doc) == Document(doc, MaxChunks)

\* the path holds nothing or a record saved before, and a temporary file of
\* a call that died before may lie beside it
InitStorage ==
    /\ wj_path \in RecordPaths
    /\ dest \in {None, Complete(0)}
    /\ tmp \in {None} \cup {Document(0, k) : k \in 0..MaxChunks}
    /\ wj_pc = "idle"
    /\ obj = 0
    /\ prev = dest
    /\ NoRun /\ NoEarlier
    /\ NoFill /\ NoFrames /\ NoPoll /\ NoClick

\* lines 20-22: a call begins; the directory is made, the name of the
\* temporary file is the path with ".tmp" appended
begin_write ==
    /\ wj_pc = "idle"
    /\ obj < MaxWrites
    /\ obj' = obj + 1
    /\ prev' = dest
    /\ wj_pc' = "open"
    /\ UNCHANGED <<wj_path, dest, tmp, runv, besides_storage>>

\* line 23: tmp.write_text opens the temporary file, which empties it
open_tmp ==
    /\ wj_pc = "open"
    /\ tmp' = Document(obj, 0)
    /\ wj_pc' = "write"
    /\ UNCHANGED <<wj_path, dest, obj, prev, runv, besides_storage>>

\* mutant: the text is written to the path itself
write_text_in_place ==
    /\ wj_pc = "write"
    /\ dest' = Document(obj, 1)
    /\ wj_pc' = "replace"
    /\ UNCHANGED <<wj_path, tmp, obj, prev, runv, besides_storage>>

\* line 23: the text reaches the temporary file write by write; the file is
\* closed after the last one
write_text ==
    /\ wj_pc = "write"
    /\ tmp' = Document(obj, tmp.part + 1)
    /\ wj_pc' = IF tmp.part + 1 = MaxChunks THEN "replace" ELSE "write"
    /\ UNCHANGED <<wj_path, dest, obj, prev, runv, besides_storage>>

\* line 24: os.replace(tmp, path) renames the temporary file onto the path
\* in one step
replace ==
    /\ wj_pc = "replace"
    /\ dest' = tmp
    /\ tmp' = None
    /\ wj_pc' = "idle"
    /\ UNCHANGED <<wj_path, obj, prev, runv, besides_storage>>

\* the process dies, or write_text raises, inside the call: the files stay
\* as they are
crash ==
    /\ wj_pc \in {"open", "write", "replace"}
    /\ wj_pc' = "idle"
    /\ UNCHANGED <<wj_path, dest, tmp, obj, prev, runv, besides_storage>>

NextStorage ==
    \/ begin_write
    \/ open_tmp
    \/ write_text
    \/ replace
    \/ crash

SpecStorage == InitStorage /\ [][NextStorage]_vars

----------------------------------------------------------------------------
(* C39 *)

\* C39: at every moment, a crash of the writer between the write of the
\* temporary file and the rename included, the path holds the complete
\* document it held before the call or the complete new one, never a part
\* of a document.
C39_PathNeverPartial ==
    /\ dest # None => dest.part = MaxChunks
    /\ dest \in {prev, Complete(obj)}

\* the writer died between the write of the temporary file and the rename:
\* the path still holds the record saved before, the new one lies complete
\* in the temporary file
C39_Witness ==
    /\ wj_pc = "idle"
    /\ dest = Complete(0)
    /\ tmp = Complete(1)
    /\ obj = 1

====
